---- MODULE Spec2Model ----
(***************************************************************************)
(* A model of parts of dpkg: the version parser and formatter              *)
(* (lib/dpkg/parsehelp.c), the control-field lookup (parsehelp.c), the     *)
(* package-name check (parsehelp.c), the filesystem node hash table         *)
(* (fsys-hash.c), command execution (lib/dpkg/command.c), the log file and *)
(* the status file descriptors (lib/dpkg/log.c) and the diversions         *)
(* database of dpkg-divert.                                                *)
(*                                                                         *)
(* C strings are sequences of one-character strings; the terminating NUL   *)
(* is the position Len(s) + 1.  A pointer into a string is an index.       *)
(***************************************************************************)
EXTENDS Integers, Sequences, FiniteSets, TLC

VARIABLES
    \* ---- version parser (parseversion, parse_db_version) ----
    string,      \* the text handed to the parser
    rversion,    \* struct dpkg_version the parser writes into
    err,         \* struct dpkg_error
    rc,          \* return value of parseversion
    psflags,     \* ps->flags of parse_db_version
    dbresult,    \* how parse_db_version ended
    vpc,         \* position of the caller
    \* ---- version formatter round trip (varbufversion, parseversion) ----
    fversion,    \* the struct dpkg_version handed to varbufversion
    vdew,        \* enum versiondisplayepochwhen
    vb,          \* the varbuf
    pversion,    \* the version parsed back from the varbuf
    prc,         \* return value of that parse
    fpc,
    \* ---- field lookup (find_field_info, find_arbfield_info) ----
    fields,      \* the fieldinfo array, without its terminating entry
    arbs,        \* the arbitraryfield list: its head and its nodes
    fieldname,   \* the name looked up
    found,       \* result of find_field_info: an index of fields, 0 for NULL
    arbfound,    \* result of find_arbfield_info: a node of arbs, 0 for NULL
    fldpc,
    \* ---- filesystem node table (fsys-hash.c) ----
    bins,        \* the non-NULL entries of bins[]: bucket -> first node
    fnode,       \* the nodes allocated so far; a node pointer is an index
    nfiles,
    returned,    \* history: the lookups that returned a node
    fspc,        \* "run", or "internerr" after a fatal internal error
    fsop,        \* the last operation on the table
    fsarg,       \* its arguments (fsys_hash_find_node: name and flags)
    fsret,       \* the node it returned, 0 for NULL
    iter,        \* struct fsys_hash_iter, or NoIter before fsys_hash_iter_new
    iterated,    \* history: what fsys_hash_iter_next returned, in call order
    iterdirty,   \* history: a node was created or the table reset since
                 \* fsys_hash_iter_new
    \* ---- command execution (command.c) ----
    cmd,         \* struct command
    added,       \* history: the arguments added since command_init
    shcmd,       \* the command string handed to command_shell
    envSHELL,    \* the value of SHELL in the environment, NullStr if unset
    execfile,    \* the file of the exec call made
    execargv,    \* the argument vector of the exec call made
    progargv,    \* the argument vector the program run in the end receives
    cmdpc,       \* "built", or how the run ended
    \* ---- dpkg-divert (the diversions database) ----
    divdb,       \* the records of the diversions file
    divop,       \* the last command: "add" or "remove"
    divarg,      \* its file and its --divert and --package values
    divout,      \* what it reported
    divrc,       \* its exit status
    \* ---- package names (pkg_name_is_illegal) ----
    pkgname,     \* the name handed to pkg_name_is_illegal
    nameres,     \* what it returned: NoMessage for NULL, or the message
    namepc,
    \* ---- status file descriptors (statusfd_add, statusfd_send) ----
    status_pipes, \* the list of struct pipef: the fds, head first
    stfmt,       \* the formatted text of the last statusfd_send
    stwrites,    \* the fd_write calls of the last statusfd_send, in order
    stop,        \* the last operation: "add" or "send"
    stpc,        \* "run", or "ohshite" after a failed write
    \* ---- the log file (log_message) ----
    log_file,    \* the global log_file, NullStr for NULL
    logfd,       \* the static FILE pointer: is the file open
    logopens,    \* history: the fopen calls made, TRUE for a success
    lognotices,  \* history: the notices emitted
    loglines,    \* history: the lines written to the log file
    \* ---- runcmd and fixedCmd on long arguments (command.c) ----
    bcmd,        \* struct command
    bused,       \* bytes of cmdstring that runcmd wrote, 0 before the call
    bfx,         \* the sizes fixedCmd computed and the bytes it wrote
    bpc          \* "built", or how the run ended

parseVars == <<string, rversion, err, rc, psflags, dbresult, vpc>>
formatVars == <<fversion, vdew, vb, pversion, prc, fpc>>
fieldVars == <<fields, arbs, fieldname, found, arbfound, fldpc>>
fsysCallVars == <<fsop, fsarg, fsret>>
fsysIterVars == <<iter, iterated, iterdirty>>
fsysVars == <<bins, fnode, nfiles, returned, fspc, fsysCallVars, fsysIterVars>>

commandVars ==
    <<cmd, added, shcmd, envSHELL, execfile, execargv, progargv, cmdpc>>

divertVars == <<divdb, divop, divarg, divout, divrc>>

nameVars == <<pkgname, nameres, namepc>>
statusVars == <<status_pipes, stfmt, stwrites, stop, stpc>>
logVars == <<log_file, logfd, logopens, lognotices, loglines>>
bufVars == <<bcmd, bused, bfx, bpc>>

vars ==
    <<parseVars, formatVars, fieldVars, fsysVars, commandVars, divertVars,
      nameVars, statusVars, logVars, bufVars>>

otherThanParse ==
    <<formatVars, fieldVars, fsysVars, commandVars, divertVars,
      nameVars, statusVars, logVars, bufVars>>
otherThanFormat ==
    <<parseVars, fieldVars, fsysVars, commandVars, divertVars,
      nameVars, statusVars, logVars, bufVars>>
otherThanField ==
    <<parseVars, formatVars, fsysVars, commandVars, divertVars,
      nameVars, statusVars, logVars, bufVars>>
otherThanFsys ==
    <<parseVars, formatVars, fieldVars, commandVars, divertVars,
      nameVars, statusVars, logVars, bufVars>>
otherThanCommand ==
    <<parseVars, formatVars, fieldVars, fsysVars, divertVars,
      nameVars, statusVars, logVars, bufVars>>
otherThanDivert ==
    <<parseVars, formatVars, fieldVars, fsysVars, commandVars,
      nameVars, statusVars, logVars, bufVars>>

otherThanName ==
    <<parseVars, formatVars, fieldVars, fsysVars, commandVars, divertVars,
      statusVars, logVars, bufVars>>
otherThanStatus ==
    <<parseVars, formatVars, fieldVars, fsysVars, commandVars, divertVars,
      nameVars, logVars, bufVars>>
otherThanLog ==
    <<parseVars, formatVars, fieldVars, fsysVars, commandVars, divertVars,
      nameVars, statusVars, bufVars>>
otherThanBuf ==
    <<parseVars, formatVars, fieldVars, fsysVars, commandVars, divertVars,
      nameVars, statusVars, logVars>>

-----------------------------------------------------------------------------
(* Bounds of the model. *)

\* Longest text over Alphabet handed to the parser.
MaxLen == 4
\* Longest text after an explicit epoch prefix.
MaxBody == 3
\* Longest upstream and revision of a version handed to the formatter.
MaxUpstream == 3
MaxRevision == 2
\* Arguments of a command: the first MaxArgv are drawn from all argument
\* values, and a command gets at most MaxArgc arguments.
MaxArgv == 2
MaxArgc == 11
\* Most records of the diversions database.
MaxDiversions == 2
\* Longest fieldinfo table and arbitraryfield list.
MaxFields == 3
\* Most leading "/" and "./" put before a path.
MaxPrefix == 3
\* Most nodes the table is given.
MaxNodes == 2
\* Longest formatted text handed to statusfd_send and log_message.
MaxText == 2
\* Number of file descriptors, and most calls of statusfd_add.
MaxFd == 2
MaxPipes == 2
\* Longest package name handed to pkg_name_is_illegal.
MaxName == 3
\* Most lines log_message writes.
MaxLog == 3
\* Most arguments of a command with long arguments.
MaxLongArgs == 2

-----------------------------------------------------------------------------
(* Sequences as C strings. *)

StrUpTo(A, k) == UNION {[1..m -> A] : m \in 0..k}

\* The absent string (a NULL char pointer); no text is equal to it.
NullStr == <<"NULL">>

\* The character at index i, "NUL" at the terminator.
At(s, i) == IF i >= 1 /\ i <= Len(s) THEN s[i] ELSE "NUL"

\* strchr(s + from - 1, c): index of the first c at or after from, 0 for NULL.
RECURSIVE strchr(_, _, _)
strchr(s, from, c) ==
    IF from > Len(s) THEN 0
    ELSE IF s[from] = c THEN from
    ELSE strchr(s, from + 1, c)

\* strrchr(s, c): index of the last c, 0 for NULL.
RECURSIVE strrchrFrom(_, _, _)
strrchrFrom(s, i, c) ==
    IF i < 1 THEN 0
    ELSE IF s[i] = c THEN i
    ELSE strrchrFrom(s, i - 1, c)

\* Mutant: the first c instead of the last.
strrchr_first(s, c) == strchr(s, 1, c)

strrchr(s, c) == strrchrFrom(s, Len(s), c)

-----------------------------------------------------------------------------
(* Character classes (dpkg/c-ctype.h) and libc's isspace. *)

DigitSeq == <<"0", "1", "2", "3", "4", "5", "6", "7", "8", "9">>
DigitChars == {DigitSeq[i] : i \in 1..10}
DigitValue(c) == (CHOOSE i \in 1..10 : DigitSeq[i] = c) - 1

LowerSeq == <<"a", "b", "c", "d", "e", "f", "g", "h", "i", "j", "k", "l", "m",
              "n", "o", "p", "q", "r", "s", "t", "u", "v", "w", "x", "y", "z">>
UpperSeq == <<"A", "B", "C", "D", "E", "F", "G", "H", "I", "J", "K", "L", "M",
              "N", "O", "P", "Q", "R", "S", "T", "U", "V", "W", "X", "Y", "Z">>
LowerChars == {LowerSeq[i] : i \in 1..26}
UpperChars == {UpperSeq[i] : i \in 1..26}

c_isdigit(c) == c \in DigitChars
c_isalpha(c) == c \in LowerChars \cup UpperChars
c_isblank(c) == c \in {" ", "\t"}
\* isspace of the C locale, as strtol uses it ("\\v" stands for the
\* vertical tab, which has no escape here).
isspace(c) == c \in {" ", "\t", "\n", "\r", "\f", "\\v"}

-----------------------------------------------------------------------------
(* Decimal numbers.  A magnitude is a sequence of digit characters, so that *)
(* values beyond 32-bit model integers (LONG_MAX) stay exact.               *)

INT_MAX == 2147483647
INT_MAX_Digits == <<"2", "1", "4", "7", "4", "8", "3", "6", "4", "7">>
\* LONG_MAX of an LP64 build.
LONG_MAX_Digits == <<"9", "2", "2", "3", "3", "7", "2", "0", "3", "6",
                     "8", "5", "4", "7", "7", "5", "8", "0", "7">>
\* The magnitude of LONG_MIN.
LONG_MIN_Digits == <<"9", "2", "2", "3", "3", "7", "2", "0", "3", "6",
                     "8", "5", "4", "7", "7", "5", "8", "0", "8">>

RECURSIVE StripZeros(_)
StripZeros(d) ==
    IF Len(d) > 0 /\ d[1] = "0" THEN StripZeros(Tail(d)) ELSE d

\* Lexicographic d > e for digit sequences of equal length.
RECURSIVE LexGt(_, _)
LexGt(d, e) ==
    IF Len(d) = 0 THEN FALSE
    ELSE IF DigitValue(d[1]) # DigitValue(e[1])
         THEN DigitValue(d[1]) > DigitValue(e[1])
    ELSE LexGt(Tail(d), Tail(e))

\* The number written d is larger than the number written e.
MagGt(d, e) ==
    LET a == StripZeros(d)
        b == StripZeros(e)
    IN  IF Len(a) # Len(b) THEN Len(a) > Len(b) ELSE LexGt(a, b)

MagIsZero(d) == StripZeros(d) = <<>>

\* The value of a magnitude known to be at most INT_MAX.
RECURSIVE MagValueAcc(_, _)
MagValueAcc(d, acc) ==
    IF Len(d) = 0 THEN acc
    ELSE MagValueAcc(Tail(d), acc * 10 + DigitValue(d[1]))

MagValue(d) == MagValueAcc(StripZeros(d), 0)

\* printf("%u") of a value in 0..INT_MAX.
RECURSIVE UnsignedDigits(_)
UnsignedDigits(n) ==
    IF n < 10 THEN <<DigitSeq[n + 1]>>
    ELSE UnsignedDigits(n \div 10) \o <<DigitSeq[(n % 10) + 1]>>

RECURSIVE SkipSpace(_, _)
SkipSpace(s, i) ==
    IF i <= Len(s) /\ isspace(s[i]) THEN SkipSpace(s, i + 1) ELSE i

RECURSIVE SkipDigits(_, _)
SkipDigits(s, i) ==
    IF i <= Len(s) /\ c_isdigit(s[i]) THEN SkipDigits(s, i + 1) ELSE i

(* strtol(s + from - 1, &end, 10): white space, an optional sign, digits.   *)
(* end is the index after the last digit, or from when there is no digit.  *)
(* The value is a sign and a magnitude; erange is errno == ERANGE.          *)
strtol(s, from) ==
    LET sp == SkipSpace(s, from)
        signed == At(s, sp) \in {"+", "-"}
        minus == At(s, sp) = "-"
        first == IF signed THEN sp + 1 ELSE sp
        last == SkipDigits(s, first)
        mag == SubSeq(s, first, last - 1)
    IN  IF last = first
        THEN [end |-> from, negative |-> FALSE, mag |-> <<>>, erange |-> FALSE]
        ELSE [end |-> last, negative |-> minus /\ ~MagIsZero(mag), mag |-> mag,
              erange |-> IF minus THEN MagGt(mag, LONG_MIN_Digits)
                                  ELSE MagGt(mag, LONG_MAX_Digits)]

-----------------------------------------------------------------------------
(* struct dpkg_error (dpkg/error.h). *)

NoError == [type |-> "DPKG_MSG_NONE", str |-> ""]
\* dpkg_put_error and dpkg_put_warn fill err and return -1.
dpkg_put_error(msg) == [type |-> "DPKG_MSG_ERROR", str |-> msg]
dpkg_put_warn(msg) == [type |-> "DPKG_MSG_WARN", str |-> msg]

\* dpkg_version_blank.
BlankVersion == [epoch |-> 0, version |-> NullStr, revision |-> NullStr]

-----------------------------------------------------------------------------
(* parseversion (parsehelp.c). *)

RECURSIVE SkipBlank(_, _)
SkipBlank(s, i) ==
    IF i <= Len(s) /\ c_isblank(s[i]) THEN SkipBlank(s, i + 1) ELSE i

RECURSIVE SkipNonBlank(_, _)
SkipNonBlank(s, i) ==
    IF i <= Len(s) /\ ~c_isblank(s[i]) THEN SkipNonBlank(s, i + 1) ELSE i

\* Index of the first character of s outside ok, 0 when there is none.
RECURSIVE FirstBadChar(_, _, _)
FirstBadChar(s, i, ok) ==
    IF i > Len(s) THEN 0
    ELSE IF ~c_isdigit(s[i]) /\ ~c_isalpha(s[i]) /\ s[i] \notin ok THEN i
    ELSE FirstBadChar(s, i + 1, ok)

\* Mutant: ':' is not allowed in the upstream version.
VersionPunct_noColon == {".", "-", "+", "~"}
VersionPunct == {".", "-", "+", "~", ":"}
RevisionPunct == {".", "+", "~"}

Ret(r, e, v) == [rc |-> r, err |-> e, rversion |-> v]

\* Mutant: an upstream that does not start with a digit is a hard error.
parseversion_split_hard(rv, s, from, end, e) ==
    LET full == SubSeq(s, from, end - 1)
        hyphen == strrchrFrom(full, Len(full), "-")
        version == IF hyphen # 0 THEN SubSeq(full, 1, hyphen - 1) ELSE full
        revision == IF hyphen # 0 THEN SubSeq(full, hyphen + 1, Len(full))
                    ELSE <<>>
        rv1 == [rv EXCEPT !.version = version]
        rv2 == [rv1 EXCEPT !.revision = revision]
    IN  IF hyphen # 0 /\ revision = <<>>
        THEN Ret(-1, dpkg_put_error("revision number is empty"), rv1)
        ELSE IF version = <<>>
        THEN Ret(-1, dpkg_put_error("version number is empty"), rv2)
        ELSE IF ~c_isdigit(version[1])
        THEN Ret(-1, dpkg_put_error("version number does not start with digit"),
                 rv2)
        ELSE IF FirstBadChar(version, 2, VersionPunct) # 0
        THEN Ret(-1, dpkg_put_warn("invalid character in version number"), rv2)
        ELSE IF FirstBadChar(revision, 1, RevisionPunct) # 0
        THEN Ret(-1, dpkg_put_warn("invalid character in revision number"), rv2)
        ELSE Ret(0, e, rv2)

\* Mutant: without the check for an empty upstream (lines 244-245).
parseversion_split_noempty(rv, s, from, end, e) ==
    LET full == SubSeq(s, from, end - 1)
        hyphen == strrchrFrom(full, Len(full), "-")
        version == IF hyphen # 0 THEN SubSeq(full, 1, hyphen - 1) ELSE full
        revision == IF hyphen # 0 THEN SubSeq(full, hyphen + 1, Len(full))
                    ELSE <<>>
        rv1 == [rv EXCEPT !.version = version]
        rv2 == [rv1 EXCEPT !.revision = revision]
    IN  IF hyphen # 0 /\ revision = <<>>
        THEN Ret(-1, dpkg_put_error("revision number is empty"), rv1)
        ELSE IF version # <<>> /\ ~c_isdigit(version[1])
        THEN Ret(-1, dpkg_put_warn("version number does not start with digit"),
                 rv2)
        ELSE IF FirstBadChar(version, 2, VersionPunct) # 0
        THEN Ret(-1, dpkg_put_warn("invalid character in version number"), rv2)
        ELSE IF FirstBadChar(revision, 1, RevisionPunct) # 0
        THEN Ret(-1, dpkg_put_warn("invalid character in revision number"), rv2)
        ELSE Ret(0, e, rv2)

\* Lines 232-257: the text [from, end) is the version after the epoch.
parseversion_split(rv, s, from, end, e) ==
    LET full == SubSeq(s, from, end - 1)
        hyphen == strrchr(full, "-")
        version == IF hyphen # 0 THEN SubSeq(full, 1, hyphen - 1) ELSE full
        revision == IF hyphen # 0 THEN SubSeq(full, hyphen + 1, Len(full))
                    ELSE <<>>
        rv1 == [rv EXCEPT !.version = version]
        rv2 == [rv1 EXCEPT !.revision = revision]
    IN  IF hyphen # 0 /\ revision = <<>>
        THEN Ret(-1, dpkg_put_error("revision number is empty"), rv1)
        ELSE IF version = <<>>
        THEN Ret(-1, dpkg_put_error("version number is empty"), rv2)
        ELSE IF ~c_isdigit(version[1])
        THEN Ret(-1, dpkg_put_warn("version number does not start with digit"),
                 rv2)
        ELSE IF FirstBadChar(version, 2, VersionPunct) # 0
        THEN Ret(-1, dpkg_put_warn("invalid character in version number"), rv2)
        ELSE IF FirstBadChar(revision, 1, RevisionPunct) # 0
        THEN Ret(-1, dpkg_put_warn("invalid character in revision number"), rv2)
        ELSE Ret(0, e, rv2)

\* Lines 211-231: the epoch; start is the first non-blank, end the first
\* blank (or the terminator) after it.
parseversion_epoch(rv, s, start, end, e) ==
    LET colon == strchr(s, start, ":")
        n == strtol(s, start)
    IN  IF colon = 0
        THEN parseversion_split([rv EXCEPT !.epoch = 0], s, start, end, e)
        ELSE IF n.end = start
        THEN Ret(-1, dpkg_put_error("epoch in version is empty"), rv)
        ELSE IF n.end # colon
        THEN Ret(-1, dpkg_put_error("epoch in version is not number"), rv)
        ELSE IF n.negative
        THEN Ret(-1, dpkg_put_error("epoch in version is negative"), rv)
        ELSE IF MagGt(n.mag, INT_MAX_Digits) \/ n.erange
        THEN Ret(-1, dpkg_put_error("epoch in version is too big"), rv)
        ELSE IF colon + 1 > Len(s)
        THEN Ret(-1, dpkg_put_error("nothing after colon in version number"),
                 rv)
        ELSE parseversion_split([rv EXCEPT !.epoch = MagValue(n.mag)],
                                s, colon + 1, end, e)

\* Mutant: blanks after the text are not skipped before the check for
\* extra characters.
parseversion_notrail(rv, s, e) ==
    LET start == SkipBlank(s, 1)
        end == SkipNonBlank(s, start)
    IN  IF start > Len(s)
        THEN Ret(-1, dpkg_put_error("version string is empty"), rv)
        ELSE IF end <= Len(s)
        THEN Ret(-1, dpkg_put_error("version string has embedded spaces"), rv)
        ELSE parseversion_epoch(rv, s, start, end, e)

\* parseversion(rversion, string, err): the return value, err and *rversion
\* as the call leaves them.
parseversion(rv, s, e) ==
    LET start == SkipBlank(s, 1)
        end == SkipNonBlank(s, start)
        ptr == SkipBlank(s, end)
    IN  IF start > Len(s)
        THEN Ret(-1, dpkg_put_error("version string is empty"), rv)
        ELSE IF ptr <= Len(s)
        THEN Ret(-1, dpkg_put_error("version string has embedded spaces"), rv)
        ELSE parseversion_epoch(rv, s, start, end, e)

-----------------------------------------------------------------------------
(* parse_db_version (parsehelp.c). *)

pdb_lax_version_parser == "pdb_lax_version_parser"

\* Mutant: the lax flag downgrades every failure, whatever its type.
parse_db_version_anytype(flags, rv, value, e) ==
    LET r == parseversion(rv, value, e)
    IN  IF r.rc = 0
        THEN [result |-> "return", parsed |-> r]
        ELSE IF pdb_lax_version_parser \in flags
        THEN [result |-> "parse_warn", parsed |-> r]
        ELSE [result |-> "parse_error", parsed |-> r]

\* How the call ends: "return" (parse succeeded), "parse_warn" (a warning is
\* printed and the call returns) or "parse_error" (ohshit: the call does not
\* return).  err is the local error as parseversion filled it.
parse_db_version(flags, rv, value, e) ==
    LET r == parseversion(rv, value, e)
    IN  IF r.rc = 0
        THEN [result |-> "return", parsed |-> r]
        ELSE IF r.err.type = "DPKG_MSG_WARN" /\ pdb_lax_version_parser \in flags
        THEN [result |-> "parse_warn", parsed |-> r]
        ELSE [result |-> "parse_error", parsed |-> r]

-----------------------------------------------------------------------------
(* varbufversion (parsehelp.c). *)

str_is_set(s) == s # NullStr /\ s # <<>>

\* Mutant: vdew_nonambig looks at the epoch only, not at a ':' in the
\* version or the revision.
varbufversion_epochonly(buf, version, when) ==
    LET showEpoch == CASE when = "vdew_never" -> FALSE
                       [] when = "vdew_nonambig" -> version.epoch # 0
                       [] when = "vdew_always" -> TRUE
        b1 == IF showEpoch
              THEN buf \o UnsignedDigits(version.epoch) \o <<":">>
              ELSE buf
        b2 == IF version.version # NullStr THEN b1 \o version.version ELSE b1
    IN  IF str_is_set(version.revision)
        THEN b2 \o <<"-">> \o version.revision
        ELSE b2

\* The varbuf after the call.
varbufversion(buf, version, when) ==
    LET ambiguous ==
            ~(version.epoch = 0 /\
              (version.version = NullStr \/
               strchr(version.version, 1, ":") = 0) /\
              (version.revision = NullStr \/
               strchr(version.revision, 1, ":") = 0))
        showEpoch == CASE when = "vdew_never" -> FALSE
                       [] when = "vdew_nonambig" -> ambiguous
                       [] when = "vdew_always" -> TRUE
        b1 == IF showEpoch
              THEN buf \o UnsignedDigits(version.epoch) \o <<":">>
              ELSE buf
        b2 == IF version.version # NullStr THEN b1 \o version.version ELSE b1
    IN  IF str_is_set(version.revision)
        THEN b2 \o <<"-">> \o version.revision
        ELSE b2

-----------------------------------------------------------------------------
(* Inputs. *)

Alphabet == {"1", "a", ":", "-", "+", " ", "_"}
BodyAlphabet == {"1", "a", ":", "-"}
\* Texts put before a ':' as the epoch.
EpochTexts ==
    { <<"0">>, <<"1">>, <<"0", "1">>, <<"-", "0">>, <<"-", "1">>, <<"+", "1">>,
      <<"\n", "1">>, <<"1", "a">>,
      INT_MAX_Digits,
      <<"2", "1", "4", "7", "4", "8", "3", "6", "4", "8">>,
      LONG_MIN_Digits,
      <<"-">> \o LONG_MIN_Digits \o <<"0">> }
\* Blanks put before and after a text.
PadPairs == { <<<<>>, <<>>>>, <<<<" ">>, <<>>>>, <<<<>>, <<"\t">>>>,
              <<<<"\t", " ">>, <<" ">>>> }
EpochInputs ==
    { p[1] \o e \o <<":">> \o b \o p[2] :
        p \in PadPairs, e \in EpochTexts, b \in StrUpTo(BodyAlphabet, MaxBody) }
VersionInputs == StrUpTo(Alphabet, MaxLen) \cup EpochInputs

Epochs == {0, 1, INT_MAX}
UpstreamInputs == StrUpTo(BodyAlphabet, MaxUpstream) \cup {NullStr}
RevisionInputs == StrUpTo({"1", "+"}, MaxRevision) \cup {NullStr}
FormatInputs ==
    [epoch : Epochs, version : UpstreamInputs, revision : RevisionInputs]
DisplayModes == {"vdew_never", "vdew_nonambig", "vdew_always"}

-----------------------------------------------------------------------------
(* The version parser as a state machine: one call of parseversion or of    *)
(* parse_db_version on a text.                                              *)

ParseIdle ==
    /\ string = <<>>
    /\ rversion = BlankVersion
    /\ err = NoError
    /\ rc = 0
    /\ psflags = {}
    /\ dbresult = "none"
    /\ vpc = "idle"

FormatIdle ==
    /\ fversion = BlankVersion
    /\ vdew = "vdew_never"
    /\ vb = <<>>
    /\ pversion = BlankVersion
    /\ prc = 0
    /\ fpc = "idle"

FieldIdle ==
    /\ fields = <<>>
    /\ arbs = [head |-> 0, node |-> <<>>]
    /\ fieldname = <<>>
    /\ found = 0
    /\ arbfound = 0
    /\ fldpc = "idle"

NoIter == [namenode |-> 0, nbinn |-> -1]
NoArg == [name |-> <<>>, flags |-> {}]

FsysIdle ==
    /\ bins = <<>>
    /\ fnode = <<>>
    /\ nfiles = 0
    /\ returned = {}
    /\ fspc = "idle"
    /\ fsop = "none"
    /\ fsarg = NoArg
    /\ fsret = 0
    /\ iter = NoIter
    /\ iterated = <<>>
    /\ iterdirty = FALSE

CommandIdle ==
    /\ cmd = [filename |-> <<>>, name |-> <<>>, argc |-> 0, argv_size |-> 0,
              argv |-> <<>>]
    /\ added = <<>>
    /\ shcmd = <<>>
    /\ envSHELL = <<>>
    /\ execfile = <<>>
    /\ execargv = <<>>
    /\ progargv = <<>>
    /\ cmdpc = "idle"

DivertIdle ==
    /\ divdb = {}
    /\ divop = "none"
    /\ divarg = [file |-> <<>>, divertto |-> <<>>, package |-> <<>>]
    /\ divout = "none"
    /\ divrc = 0

NoMessage == [msg |-> "NULL", c |-> "NUL"]

NameIdle ==
    /\ pkgname = <<>>
    /\ nameres = NoMessage
    /\ namepc = "idle"

StatusIdle ==
    /\ status_pipes = <<>>
    /\ stfmt = <<>>
    /\ stwrites = <<>>
    /\ stop = "none"
    /\ stpc = "idle"

LogIdle ==
    /\ log_file = NullStr
    /\ logfd = FALSE
    /\ logopens = <<>>
    /\ lognotices = <<>>
    /\ loglines = <<>>

NoSizes == [size |-> 0, cmdlen |-> 0, commandSize |-> 0, rawlen |-> 0,
            allocated |-> 0, written |-> 0]

BufIdle ==
    /\ bcmd = [filename |-> <<>>, name |-> <<>>, argc |-> 0, argv_size |-> 0,
               argv |-> <<>>]
    /\ bused = 0
    /\ bfx = NoSizes
    /\ bpc = "idle"

EarlierIdle ==
    ParseIdle /\ FormatIdle /\ FieldIdle /\ FsysIdle /\ CommandIdle /\ DivertIdle

InitParse ==
    /\ string \in VersionInputs
    /\ rversion = BlankVersion
    /\ err = NoError
    /\ rc = 0
    /\ psflags = {}
    /\ dbresult = "none"
    /\ vpc = "start"
    /\ FormatIdle /\ FieldIdle /\ FsysIdle /\ CommandIdle /\ DivertIdle
    /\ NameIdle /\ StatusIdle /\ LogIdle /\ BufIdle

CallParseversion ==
    /\ vpc = "start"
    /\ LET r == parseversion(rversion, string, err)
       IN  /\ rc' = r.rc
           /\ err' = r.err
           /\ rversion' = r.rversion
    /\ vpc' = "parsed"
    /\ UNCHANGED <<string, psflags, dbresult>>
    /\ UNCHANGED otherThanParse

CallParseDbVersion ==
    /\ vpc = "start"
    /\ \E flags \in SUBSET {pdb_lax_version_parser} :
         LET d == parse_db_version(flags, rversion, string, err)
         IN  /\ psflags' = flags
             /\ dbresult' = d.result
             /\ rc' = d.parsed.rc
             /\ err' = d.parsed.err
             /\ rversion' = d.parsed.rversion
    /\ vpc' = "db_done"
    /\ UNCHANGED string
    /\ UNCHANGED otherThanParse

NextParse == CallParseversion \/ CallParseDbVersion

SpecParse == InitParse /\ [][NextParse]_vars

-----------------------------------------------------------------------------
(* Formatting a version and parsing the text back. *)

InitFormat ==
    /\ fversion \in FormatInputs
    /\ vdew \in DisplayModes
    /\ vb = <<>>
    /\ pversion = BlankVersion
    /\ prc = 0
    /\ fpc = "format"
    /\ ParseIdle /\ FieldIdle /\ FsysIdle /\ CommandIdle /\ DivertIdle
    /\ NameIdle /\ StatusIdle /\ LogIdle /\ BufIdle

CallVarbufversion ==
    /\ fpc = "format"
    /\ vb' = varbufversion(vb, fversion, vdew)
    /\ fpc' = "parse"
    /\ UNCHANGED <<fversion, vdew, pversion, prc>>
    /\ UNCHANGED otherThanFormat

ParseFormatted ==
    /\ fpc = "parse"
    /\ LET r == parseversion(pversion, vb, NoError)
       IN  /\ prc' = r.rc
           /\ pversion' = r.rversion
    /\ fpc' = "done"
    /\ UNCHANGED <<fversion, vdew, vb>>
    /\ UNCHANGED otherThanFormat

NextFormat == CallVarbufversion \/ ParseFormatted

SpecFormat == InitFormat /\ [][NextFormat]_vars

-----------------------------------------------------------------------------
(* find_field_info and find_arbfield_info (parsehelp.c). *)

\* tolower of the C locale.
tolower(c) ==
    IF c \in UpperChars
    THEN LowerSeq[CHOOSE i \in 1..26 : UpperSeq[i] = c]
    ELSE c

\* strcasecmp(a, b): 0 when the texts are equal ignoring case, 1 for any
\* other result (only the comparison with 0 is used).
RECURSIVE strcasecmp(_, _)
strcasecmp(a, b) ==
    IF a = <<>> \/ b = <<>> THEN (IF a = b THEN 0 ELSE 1)
    ELSE IF tolower(a[1]) # tolower(b[1]) THEN 1
    ELSE strcasecmp(Tail(a), Tail(b))

RECURSIVE find_field_from(_, _, _)
find_field_from(table, i, name) ==
    IF i > Len(table) THEN 0
    ELSE IF strcasecmp(table[i].name, name) = 0 THEN i
    ELSE find_field_from(table, i + 1, name)

\* Mutant: the names are compared with strcmp.
find_field_info_strcmp(table, name) ==
    IF \E i \in 1..Len(table) : table[i].name = name
    THEN CHOOSE i \in 1..Len(table) :
             /\ table[i].name = name
             /\ \A j \in 1..(i - 1) : table[j].name # name
    ELSE 0

\* The entry found (an index of the array), 0 for NULL.  The array ends at
\* the entry whose name is NULL, the position Len(table) + 1.
find_field_info(table, name) == find_field_from(table, 1, name)

RECURSIVE find_arbfield_from(_, _, _)
find_arbfield_from(list, arbfield, name) ==
    IF arbfield = 0 THEN 0
    ELSE IF strcasecmp(list.node[arbfield].name, name) = 0 THEN arbfield
    ELSE find_arbfield_from(list, list.node[arbfield].next, name)

\* The node found, 0 for NULL.
find_arbfield_info(list, name) == find_arbfield_from(list, list.head, name)

FieldNames ==
    { <<"a">>, <<"A">>, <<"b">>, <<"a", "b">>, <<"A", "b">>, <<"a", "B">>,
      <<"A", "B">>, <<"b", "a">> }
FieldTables == UNION {[1..n -> FieldNames] : n \in 0..MaxFields}

\* The fieldinfo array holding names in this order.
FieldArray(names) == [i \in 1..Len(names) |-> [name |-> names[i]]]

\* The arbitraryfield list holding names in this order; the nodes were
\* allocated last to first, so the head is the node Len(names).
ArbList(names) ==
    [head |-> Len(names),
     node |-> [k \in 1..Len(names) |->
                  [name |-> names[Len(names) + 1 - k], next |-> k - 1]]]

InitField ==
    /\ \E names \in FieldTables :
         /\ fields = FieldArray(names)
         /\ arbs = ArbList(names)
    /\ fieldname \in FieldNames
    /\ found = 0
    /\ arbfound = 0
    /\ fldpc = "start"
    /\ ParseIdle /\ FormatIdle /\ FsysIdle /\ CommandIdle /\ DivertIdle
    /\ NameIdle /\ StatusIdle /\ LogIdle /\ BufIdle

FindFieldInfo ==
    /\ fldpc = "start"
    /\ found' = find_field_info(fields, fieldname)
    /\ fldpc' = "field_done"
    /\ UNCHANGED <<fields, arbs, fieldname, arbfound>>
    /\ UNCHANGED otherThanField

FindArbfieldInfo ==
    /\ fldpc = "start"
    /\ arbfound' = find_arbfield_info(arbs, fieldname)
    /\ fldpc' = "arb_done"
    /\ UNCHANGED <<fields, arbs, fieldname, found>>
    /\ UNCHANGED otherThanField

NextField == FindFieldInfo \/ FindArbfieldInfo

SpecField == InitField /\ [][NextField]_vars

-----------------------------------------------------------------------------
(* The filesystem node table (fsys-hash.c). *)

BINS == 262139

FHFF_NOCOPY == "FHFF_NOCOPY"
FHFF_NONE == "FHFF_NONE"
EMPTYHASHFLAG == "EMPTYHASHFLAG"

\* path_skip_slash_dotslash(path): the index of the first character left
\* after the leading '/' characters and "./" pairs.
RECURSIVE path_skip_slash_dotslash(_, _)
path_skip_slash_dotslash(path, i) ==
    IF At(path, i) = "/" \/ (At(path, i) = "." /\ At(path, i + 1) = "/")
    THEN path_skip_slash_dotslash(path, i + 1)
    ELSE i

CharCode(c) ==
    CASE c = "/" -> 47
      [] c = "." -> 46
      [] c = "a" -> 97
      [] c = "b" -> 98

\* str_fnv_hash(name).  The table needs a function of the name only; the sum
\* of the character codes stands for it, so that different names (those with
\* the same characters in another order) share a bucket.
RECURSIVE str_fnv_hash(_)
str_fnv_hash(name) ==
    IF name = <<>> THEN 0 ELSE CharCode(name[1]) + str_fnv_hash(Tail(name))

\* bins[b]: the first node of bucket b, 0 for NULL.
Bin(table, b) == IF b \in DOMAIN table THEN table[b] ELSE 0

\* The nodes of the chain starting at node n.
RECURSIVE ChainNodes(_, _)
ChainNodes(nodes, n) ==
    IF n = 0 THEN {} ELSE {n} \cup ChainNodes(nodes, nodes[n].next)

\* The nodes reached from the buckets of a table.
NodesOf(table, nodes) ==
    UNION {ChainNodes(nodes, table[b]) : b \in DOMAIN table}

\* The nodes the table holds.
TableNodes == NodesOf(bins, fnode)

(* The while loop of fsys_hash_find_node over the chain starting at node    *)
(* n: the node whose name after its first character equals name (hit), the  *)
(* last node of the chain (where a new node is linked), and whether a       *)
(* node whose name does not start with '/' was met (internerr).             *)
RECURSIVE fsys_chain_walk(_, _, _, _)
fsys_chain_walk(nodes, n, prev, name) ==
    IF n = 0 THEN [hit |-> 0, last |-> prev, internerr |-> FALSE]
    ELSE IF At(nodes[n].name, 1) # "/"
    THEN [hit |-> 0, last |-> prev, internerr |-> TRUE]
    ELSE IF Tail(nodes[n].name) = name
    THEN [hit |-> n, last |-> prev, internerr |-> FALSE]
    ELSE fsys_chain_walk(nodes, nodes[n].next, n, name)

\* Mutant: the copied name is stored without the leading '/'.
fsys_new_node_noslash(orig_name, k, flags) ==
    LET name == SubSeq(orig_name, k, Len(orig_name))
        borrow == FHFF_NOCOPY \in flags /\ k > 1 /\ orig_name[k - 1] = "/"
    IN  [name |-> IF borrow
                  THEN SubSeq(orig_name, k - 1, Len(orig_name))
                  ELSE name,
         borrowed |-> borrow,
         next |-> 0,
         packages |-> {},
         flags |-> {},
         divert |-> 0,
         statoverride |-> 0,
         oldhash |-> 0,
         newhash |-> EMPTYHASHFLAG,
         file_ondisk_id |-> 0,
         trig_interested |-> 0]

\* The node a miss creates (lines 105-123).
fsys_new_node(orig_name, k, flags) ==
    LET name == SubSeq(orig_name, k, Len(orig_name))
        borrow == FHFF_NOCOPY \in flags /\ k > 1 /\ orig_name[k - 1] = "/"
    IN  [name |-> IF borrow
                  THEN SubSeq(orig_name, k - 1, Len(orig_name))
                  ELSE <<"/">> \o name,
         borrowed |-> borrow,
         next |-> 0,
         packages |-> {},
         flags |-> {},
         divert |-> 0,
         statoverride |-> 0,
         oldhash |-> 0,
         newhash |-> EMPTYHASHFLAG,
         file_ondisk_id |-> 0,
         trig_interested |-> 0]

\* Mutant: the name is looked up and stored as given, without skipping the
\* leading '/' and "./".
fsys_hash_find_node_noskip(table, nodes, n, orig_name, flags) ==
    LET name == orig_name
        b == str_fnv_hash(name) % BINS
        w == fsys_chain_walk(nodes, Bin(table, b), 0, name)
        new == Len(nodes) + 1
    IN  IF w.internerr
        THEN [ret |-> 0, internerr |-> TRUE, bins |-> table, fnode |-> nodes,
              nfiles |-> n]
        ELSE IF w.hit # 0
        THEN [ret |-> w.hit, internerr |-> FALSE, bins |-> table,
              fnode |-> nodes, nfiles |-> n]
        ELSE IF FHFF_NONE \in flags
        THEN [ret |-> 0, internerr |-> FALSE, bins |-> table, fnode |-> nodes,
              nfiles |-> n]
        ELSE [ret |-> new, internerr |-> FALSE,
              bins |-> IF w.last = 0
                       THEN [x \in DOMAIN table \cup {b} |->
                                IF x = b THEN new ELSE table[x]]
                       ELSE table,
              fnode |-> Append(IF w.last = 0 THEN nodes
                               ELSE [nodes EXCEPT ![w.last].next = new],
                               fsys_new_node(<<"/">> \o orig_name, 2, {})),
              nfiles |-> n + 1]

\* Mutant: a miss creates the node whatever the flags are.
fsys_hash_find_node_alwaysnew(table, nodes, n, orig_name, flags) ==
    LET k == path_skip_slash_dotslash(orig_name, 1)
        name == SubSeq(orig_name, k, Len(orig_name))
        b == str_fnv_hash(name) % BINS
        w == fsys_chain_walk(nodes, Bin(table, b), 0, name)
        new == Len(nodes) + 1
    IN  IF w.internerr
        THEN [ret |-> 0, internerr |-> TRUE, bins |-> table, fnode |-> nodes,
              nfiles |-> n]
        ELSE IF w.hit # 0
        THEN [ret |-> w.hit, internerr |-> FALSE, bins |-> table,
              fnode |-> nodes, nfiles |-> n]
        ELSE [ret |-> new, internerr |-> FALSE,
              bins |-> IF w.last = 0
                       THEN [x \in DOMAIN table \cup {b} |->
                                IF x = b THEN new ELSE table[x]]
                       ELSE table,
              fnode |-> Append(IF w.last = 0 THEN nodes
                               ELSE [nodes EXCEPT ![w.last].next = new],
                               fsys_new_node(orig_name, k, flags)),
              nfiles |-> n + 1]

\* fsys_hash_find_node(name, flags) on the table (bins, nodes, nfiles): the
\* node returned (0 for NULL) and the table after the call.
fsys_hash_find_node(table, nodes, n, orig_name, flags) ==
    LET k == path_skip_slash_dotslash(orig_name, 1)
        name == SubSeq(orig_name, k, Len(orig_name))
        b == str_fnv_hash(name) % BINS
        w == fsys_chain_walk(nodes, Bin(table, b), 0, name)
        new == Len(nodes) + 1
    IN  IF w.internerr
        THEN [ret |-> 0, internerr |-> TRUE, bins |-> table, fnode |-> nodes,
              nfiles |-> n]
        ELSE IF w.hit # 0
        THEN [ret |-> w.hit, internerr |-> FALSE, bins |-> table,
              fnode |-> nodes, nfiles |-> n]
        ELSE IF FHFF_NONE \in flags
        THEN [ret |-> 0, internerr |-> FALSE, bins |-> table, fnode |-> nodes,
              nfiles |-> n]
        ELSE [ret |-> new, internerr |-> FALSE,
              bins |-> IF w.last = 0
                       THEN [x \in DOMAIN table \cup {b} |->
                                IF x = b THEN new ELSE table[x]]
                       ELSE table,
              fnode |-> Append(IF w.last = 0 THEN nodes
                               ELSE [nodes EXCEPT ![w.last].next = new],
                               fsys_new_node(orig_name, k, flags)),
              nfiles |-> n + 1]

\* Paths looked up: up to MaxPrefix leading "/" and "./" before a rest; the
\* rests include names that start with a '.' that is not part of a "./".
RECURSIVE PrefixesUpTo(_)
PrefixesUpTo(n) ==
    IF n = 0 THEN {<<>>}
    ELSE LET P == PrefixesUpTo(n - 1)
         IN  P \cup {p \o <<"/">> : p \in P} \cup {p \o <<".", "/">> : p \in P}
PathPrefixes == PrefixesUpTo(MaxPrefix)
PathRests ==
    { <<>>, <<"a">>, <<"a", "b">>, <<"b", "a">>, <<".", "a">>, <<".", ".">>,
      <<"a", "/", "/", "b">> }
Paths == {pre \o rest : pre \in PathPrefixes, rest \in PathRests}
FindFlags == SUBSET {FHFF_NOCOPY, FHFF_NONE}

\* The leading '/' characters and "./" pairs taken off a path, one token at
\* a time.
RECURSIVE StripLeading(_)
StripLeading(path) ==
    IF Len(path) >= 1 /\ path[1] = "/" THEN StripLeading(Tail(path))
    ELSE IF Len(path) >= 2 /\ path[1] = "." /\ path[2] = "/"
    THEN StripLeading(Tail(Tail(path)))
    ELSE path

InitFsys ==
    /\ bins = <<>>
    /\ fnode = <<>>
    /\ nfiles = 0
    /\ returned = {}
    /\ fspc = "run"
    /\ fsop = "none"
    /\ fsarg = NoArg
    /\ fsret = 0
    /\ iter = NoIter
    /\ iterated = <<>>
    /\ iterdirty = FALSE
    /\ ParseIdle /\ FormatIdle /\ FieldIdle /\ CommandIdle /\ DivertIdle
    /\ NameIdle /\ StatusIdle /\ LogIdle /\ BufIdle

\* One call of fsys_hash_find_node.  A call that would create a node is
\* taken only while the table has fewer than MaxNodes nodes.
FsysHashFindNode ==
    /\ fspc = "run"
    /\ \E path \in Paths, flags \in FindFlags :
         LET r == fsys_hash_find_node(bins, fnode, nfiles, path, flags)
         IN  /\ Len(r.fnode) <= MaxNodes
             /\ bins' = r.bins
             /\ fnode' = r.fnode
             /\ nfiles' = r.nfiles
             /\ fspc' = IF r.internerr THEN "internerr" ELSE "run"
             /\ returned' = IF r.ret # 0
                            THEN returned \cup
                                 {[key |-> StripLeading(path), node |-> r.ret]}
                            ELSE returned
    /\ UNCHANGED <<fsysCallVars, fsysIterVars>>
    /\ UNCHANGED otherThanFsys

NextFsysFind == FsysHashFindNode

\* The table under calls of fsys_hash_find_node only.
SpecFsysFind == InitFsys /\ [][NextFsysFind]_vars

-----------------------------------------------------------------------------
(* The whole interface of the table: fsys_hash_find_node, fsys_hash_init,   *)
(* fsys_hash_reset, fsys_hash_entries and the forward iterator, with the    *)
(* writes the rest of the program makes to the nodes it got.                *)

\* Mutant: fsys_hash_init clears the flags only.
fsys_hash_init_flagsonly(table, nodes) ==
    [n \in 1..Len(nodes) |->
        IF n \in NodesOf(table, nodes)
        THEN [nodes[n] EXCEPT !.flags = {}]
        ELSE nodes[n]]

\* fsys_hash_init(): the nodes after the loop over every chain of the table.
fsys_hash_init(table, nodes) ==
    [n \in 1..Len(nodes) |->
        IF n \in NodesOf(table, nodes)
        THEN [nodes[n] EXCEPT !.flags = {},
                              !.oldhash = 0,
                              !.newhash = EMPTYHASHFLAG,
                              !.file_ondisk_id = 0]
        ELSE nodes[n]]

\* Mutant: fsys_hash_reset empties the buckets and keeps the count.
fsys_hash_reset_keepcount(table, n) == [bins |-> <<>>, nfiles |-> n]

\* fsys_hash_reset(): every bucket NULL, no files.
fsys_hash_reset(table, n) == [bins |-> <<>>, nfiles |-> 0]

\* fsys_hash_entries()
fsys_hash_entries(n) == n

\* fsys_hash_iter_new()
fsys_hash_iter_new == [namenode |-> 0, nbinn |-> 0]

\* The buckets at or after nbinn that are not NULL.
BinsFrom(table, nbinn) == {b \in DOMAIN table : b >= nbinn /\ table[b] # 0}

\* Mutant: the iterator leaves a chain after its first node.
fsys_hash_iter_next_nochain(table, nodes, it) ==
    LET rest == BinsFrom(table, it.nbinn)
        b == CHOOSE x \in rest : \A y \in rest : x <= y
    IN  IF rest = {}
        THEN [ret |-> 0, iter |-> [namenode |-> 0, nbinn |-> BINS]]
        ELSE [ret |-> table[b], iter |-> [namenode |-> 0, nbinn |-> b + 1]]

\* fsys_hash_iter_next(iter): the node returned (0 for NULL) and the
\* iterator after the call.  The while loop runs over the NULL buckets up to
\* the next bucket with a chain, or up to BINS.
fsys_hash_iter_next(table, nodes, it) ==
    LET rest == BinsFrom(table, it.nbinn)
        b == CHOOSE x \in rest : \A y \in rest : x <= y
    IN  IF it.namenode # 0
        THEN [ret |-> it.namenode,
              iter |-> [it EXCEPT !.namenode = nodes[it.namenode].next]]
        ELSE IF rest = {}
        THEN [ret |-> 0, iter |-> [namenode |-> 0, nbinn |-> BINS]]
        ELSE [ret |-> table[b],
              iter |-> [namenode |-> nodes[table[b]].next, nbinn |-> b + 1]]

\* The paths looked up where the whole interface is used: the two names of
\* one bucket, and a name with a repeated slash inside.
TablePaths ==
    { <<"/", "a", "b">>, <<"b", "a">>, <<".", "/", "a", "/", "/", "b">> }

\* One call of fsys_hash_find_node, with its arguments and result kept.
FsysFind ==
    /\ fspc = "run"
    /\ \E path \in TablePaths, flags \in FindFlags :
         LET r == fsys_hash_find_node(bins, fnode, nfiles, path, flags)
         IN  /\ Len(r.fnode) <= MaxNodes
             /\ bins' = r.bins
             /\ fnode' = r.fnode
             /\ nfiles' = r.nfiles
             /\ fspc' = IF r.internerr THEN "internerr" ELSE "run"
             /\ fsop' = "find"
             /\ fsarg' = [name |-> path, flags |-> flags]
             /\ fsret' = r.ret
             /\ iterdirty' = (iterdirty \/ Len(r.fnode) # Len(fnode))
    /\ UNCHANGED <<returned, iter, iterated>>
    /\ UNCHANGED otherThanFsys

\* What the rest of the program writes into a node it holds: the fields of
\* one run (flags, hashes, on-disk identity) or the lasting ones (owning
\* packages, diversion, stat override, trigger interest).
NodeWrites == {"run", "lasting"}
NodeWrite(node, w) ==
    IF w = "run"
    THEN [node EXCEPT !.flags = {"fnnf_new_inarchive"},
                      !.oldhash = 1,
                      !.newhash = "hash",
                      !.file_ondisk_id = 1]
    ELSE [node EXCEPT !.packages = {"pkg"},
                      !.divert = 1,
                      !.statoverride = 1,
                      !.trig_interested = 1]

FsysNodeWrite ==
    /\ fspc = "run"
    /\ \E n \in 1..Len(fnode), w \in NodeWrites :
         fnode' = [fnode EXCEPT ![n] = NodeWrite(fnode[n], w)]
    /\ fsop' = "write"
    /\ fsarg' = NoArg
    /\ fsret' = 0
    /\ UNCHANGED <<bins, nfiles, returned, fspc, fsysIterVars>>
    /\ UNCHANGED otherThanFsys

FsysHashInit ==
    /\ fspc = "run"
    /\ fnode' = fsys_hash_init(bins, fnode)
    /\ fsop' = "init"
    /\ fsarg' = NoArg
    /\ fsret' = 0
    /\ UNCHANGED <<bins, nfiles, returned, fspc, fsysIterVars>>
    /\ UNCHANGED otherThanFsys

FsysHashReset ==
    /\ fspc = "run"
    /\ LET r == fsys_hash_reset(bins, nfiles)
       IN  bins' = r.bins /\ nfiles' = r.nfiles
    /\ fsop' = "reset"
    /\ fsarg' = NoArg
    /\ fsret' = 0
    /\ iterdirty' = TRUE
    /\ UNCHANGED <<fnode, returned, fspc, iter, iterated>>
    /\ UNCHANGED otherThanFsys

FsysHashIterNew ==
    /\ fspc = "run"
    /\ iter' = fsys_hash_iter_new
    /\ iterated' = <<>>
    /\ iterdirty' = FALSE
    /\ fsop' = "iter_new"
    /\ fsarg' = NoArg
    /\ fsret' = 0
    /\ UNCHANGED <<bins, fnode, nfiles, returned, fspc>>
    /\ UNCHANGED otherThanFsys

\* One call of fsys_hash_iter_next on the iterator, at most MaxNodes + 2
\* calls for one iterator.
FsysHashIterNext ==
    /\ fspc = "run"
    /\ iter # NoIter
    /\ Len(iterated) < MaxNodes + 2
    /\ LET r == fsys_hash_iter_next(bins, fnode, iter)
       IN  /\ iter' = r.iter
           /\ iterated' = Append(iterated, r.ret)
           /\ fsret' = r.ret
    /\ fsop' = "iter_next"
    /\ fsarg' = NoArg
    /\ UNCHANGED <<bins, fnode, nfiles, returned, fspc, iterdirty>>
    /\ UNCHANGED otherThanFsys

NextFsysTable ==
    \/ FsysFind
    \/ FsysNodeWrite
    \/ FsysHashInit
    \/ FsysHashReset

\* The table under lookups, writes to the nodes, init and reset.
SpecFsysTable == InitFsys /\ [][NextFsysTable]_vars

NextFsysIter ==
    \/ FsysFind
    \/ FsysHashReset
    \/ FsysHashIterNew
    \/ FsysHashIterNext

\* The table under lookups, reset and one forward iterator.
SpecFsysIter == InitFsys /\ [][NextFsysIter]_vars

-----------------------------------------------------------------------------
(* Command execution (command.c). *)

\* An argv slot that was allocated and never written.
Uninit == <<"UNINIT">>

DEFAULTSHELL == <<"s", "h">>

\* path_basename(filename): the text after the last '/'.
path_basename(filename) ==
    LET slashes == {i \in 1..Len(filename) : filename[i] = "/"}
        last == IF slashes = {} THEN 0
                ELSE CHOOSE i \in slashes : \A j \in slashes : j <= i
    IN  SubSeq(filename, last + 1, Len(filename))

str_is_unset(str) == str = NullStr \/ str = <<>>

\* command_init(cmd, filename, name)
command_init(filename, name) ==
    [filename |-> filename,
     name |-> IF name = NullStr THEN path_basename(filename) ELSE name,
     argc |-> 0,
     argv_size |-> 10,
     argv |-> [i \in 1..10 |-> IF i = 1 THEN NullStr ELSE Uninit]]

\* Mutant: the array grows to what the arguments need, without the slot for
\* the NULL.
command_grow_argv_noghost(c, need) ==
    IF c.argv_size - c.argc >= need + 1 THEN c
    ELSE [c EXCEPT !.argv_size = c.argc + need,
                   !.argv = SubSeq(c.argv, 1, c.argc) \o
                            [i \in 1..need |-> Uninit]]

\* Mutant: the array grows only when it is already full.
command_grow_argv_late(c, need) ==
    IF c.argv_size - c.argc >= need THEN c
    ELSE [c EXCEPT !.argv_size = (c.argv_size + need + 1) * 2,
                   !.argv = c.argv \o
                            [i \in 1..((c.argv_size + need + 1) * 2
                                        - c.argv_size) |-> Uninit]]

\* command_grow_argv(cmd, need): room for need arguments and the NULL.
command_grow_argv(c, need) ==
    IF c.argv_size - c.argc >= need + 1 THEN c
    ELSE [c EXCEPT !.argv_size = (c.argv_size + need + 1) * 2,
                   !.argv = c.argv \o
                            [i \in 1..((c.argv_size + need + 1) * 2
                                        - c.argv_size) |-> Uninit]]

\* The writes argv[argc++] = list[i] for every i, then argv[argc] = NULL.  A
\* write past the end of the array is lost here; the properties of argv show
\* it as a missing argument or a missing NULL.
StoreArgs(c, list) ==
    [c EXCEPT !.argc = c.argc + Len(list),
              !.argv = [i \in 1..Len(c.argv) |->
                          IF i > c.argc /\ i <= c.argc + Len(list)
                          THEN list[i - c.argc]
                          ELSE IF i = c.argc + Len(list) + 1 THEN NullStr
                          ELSE c.argv[i]]]

\* command_add_arg(cmd, arg)
command_add_arg(c, arg) == StoreArgs(command_grow_argv(c, 1), <<arg>>)

\* command_add_argl(cmd, argv): argv is the array without its NULL.
command_add_argl(c, list) == StoreArgs(command_grow_argv(c, Len(list)), list)

\* command_add_argv(cmd, args): args is the va_list without its NULL.
command_add_argv(c, args) == StoreArgs(command_grow_argv(c, Len(args)), args)

\* command_add_args(cmd, ...)
command_add_args(c, args) == command_add_argv(c, args)

\* A NULL-terminated array as exec reads it: the entries before the first
\* NULL.
RECURSIVE ArgvUpToNull(_, _)
ArgvUpToNull(argv, i) ==
    IF i > Len(argv) \/ argv[i] = NullStr THEN <<>>
    ELSE <<argv[i]>> \o ArgvUpToNull(argv, i + 1)

\* Mutant: a command is run by the shell named by SHELL, too.
command_shell_envalways(command, shell_env) ==
    LET mode == IF command = NullStr THEN <<"-", "i">> ELSE <<"-", "c">>
        shell == IF str_is_unset(shell_env) THEN DEFAULTSHELL ELSE shell_env
    IN  [file |-> shell,
         argv |-> IF command = NullStr THEN <<shell, mode>>
                  ELSE <<shell, mode, command>>]

\* command_shell(cmd, name): the execlp call it makes.  shell_env is
\* getenv("SHELL"), NullStr when the variable is not set.
command_shell(command, shell_env) ==
    LET mode == IF command = NullStr THEN <<"-", "i">> ELSE <<"-", "c">>
        sh == IF command = NullStr THEN shell_env ELSE NullStr
        shell == IF str_is_unset(sh) THEN DEFAULTSHELL ELSE sh
    IN  [file |-> shell,
         argv |-> IF command = NullStr THEN <<shell, mode>>
                  ELSE <<shell, mode, command>>]

\* The C string at index i of a buffer: the characters up to the first NUL.
CStr(buf, i) ==
    LET nuls == {j \in i..Len(buf) : buf[j] = "NUL"}
    IN  IF i > Len(buf) THEN <<>>
        ELSE IF nuls = {} THEN SubSeq(buf, i, Len(buf))
        ELSE SubSeq(buf, i, (CHOOSE j \in nuls : \A k \in nuls : j <= k) - 1)

\* The loop of runcmd: every argument followed by a space.
RECURSIVE JoinArgs(_)
JoinArgs(args) ==
    IF args = <<>> THEN <<>>
    ELSE args[1] \o <<" ">> \o JoinArgs(Tail(args))

\* What the file system answers to searchpath and isShellScript.
PATHDIR == <<"/", "b">>
INTERPRETER == <<"/", "s">>
Garbage == { <<>>, <<"?">> }
FsAnswers ==
    [exists : BOOLEAN, script : BOOLEAN, garbage : Garbage,
     dir : {PATHDIR}, interpreter : {INTERPRETER}]

\* searchpath(binaryname): the path found, NullStr for NULL; dir is the
\* directory of PATH that has the file.
searchpath(binaryname, dir, exists) ==
    IF \E i \in 1..Len(binaryname) : binaryname[i] = "/"
    THEN IF exists THEN binaryname ELSE NullStr
    ELSE IF exists THEN dir \o <<"/">> \o binaryname ELSE NullStr

\* The size of cmdstring in runcmd, and the number of values of uint8_t.
CMDSTRING_SIZE == 200
UINT8_RANGE == 256

\* The sizes fixedCmd computes and the memory it uses: size and commandSize
\* as the uint8_t variables hold them, cmdlen = strlen(cmd), rawlen = the
\* length of the text the strcpy and strcat calls put together, allocated =
\* the bytes malloc gave to rawCommand, and written = the bytes of
\* rawCommand from its start to the last byte written, the
\* rawCommand[commandSize + 1] = 0 included.
Sizes(size, cmdlen, commandSize, rawlen, prefix) ==
    [size |-> size, cmdlen |-> cmdlen, commandSize |-> commandSize,
     rawlen |-> rawlen, allocated |-> commandSize + 1,
     written |-> IF prefix + rawlen + 1 > commandSize + 2
                 THEN prefix + rawlen + 1 ELSE commandSize + 2]

\* fixedCmd(cmdStr).  strtok cuts the first word out of the copy by writing
\* a NUL over the space after it; args is the C string size bytes into the
\* copy.  A string without a word makes strtok return NULL, and strlen(NULL)
\* ends the process.  In the branch for a program that is not a script the
\* command is built with strcat on memory malloc returned: what was there
\* (garbage) comes first.
fixedCmd(cmdStr, fs) ==
    LET words == {i \in 1..Len(cmdStr) : cmdStr[i] # " "}
        s == CHOOSE i \in words : \A j \in words : i <= j
        ends == {i \in s..Len(cmdStr) : cmdStr[i] = " "}
        e == IF ends = {} THEN Len(cmdStr) + 1
             ELSE CHOOSE i \in ends : \A j \in ends : i <= j
        cmdCpy == [i \in 1..Len(cmdStr) |->
                      IF i = e THEN "NUL" ELSE cmdStr[i]]
        command == SubSeq(cmdStr, s, e - 1)
        size == (Len(command) + 1) % UINT8_RANGE
        args == IF Len(cmdStr) - Len(command) = 0 THEN NullStr
                ELSE CStr(cmdCpy, size + 1)
        abs_path == searchpath(command, fs.dir, fs.exists)
        tail == IF args = NullStr THEN <<>> ELSE <<" ">> \o args
        script == fs.interpreter \o <<" ">> \o abs_path \o tail
        binary == abs_path \o tail
    IN  IF words = {}
        THEN [crash |-> TRUE, str |-> <<>>, sizes |-> NoSizes]
        ELSE IF abs_path = NullStr
        THEN [crash |-> FALSE, str |-> CStr(cmdCpy, 1),
              sizes |-> [NoSizes EXCEPT !.size = size,
                                        !.cmdlen = Len(command)]]
        ELSE IF fs.script
        THEN [crash |-> FALSE, str |-> script,
              sizes |-> Sizes(size, Len(command),
                              Len(script) % UINT8_RANGE, Len(script), 0)]
        ELSE [crash |-> FALSE, str |-> fs.garbage \o binary,
              sizes |-> Sizes(size, Len(command),
                              Len(binary) % UINT8_RANGE, Len(binary),
                              Len(fs.garbage))]

\* The words of the first command of a shell command line: the text up to
\* the first ';', split at spaces.
RECURSIVE ShellWordsFrom(_, _, _)
ShellWordsFrom(str, i, word) ==
    IF i > Len(str) \/ str[i] = ";"
    THEN IF word = <<>> THEN <<>> ELSE <<word>>
    ELSE IF str[i] = " "
    THEN (IF word = <<>> THEN <<>> ELSE <<word>>) \o
         ShellWordsFrom(str, i + 1, <<>>)
    ELSE ShellWordsFrom(str, i + 1, Append(word, str[i]))
ShellWords(str) == ShellWordsFrom(str, 1, <<>>)

\* runcmd(cmd): the exec call it ends in, or the crash inside fixedCmd; used
\* is the number of bytes written through ptr, the NUL included, and sizes
\* what fixedCmd did.
runcmd(c, fs, shell_env) ==
    LET cmdstring == JoinArgs(SubSeq(c.argv, 1, c.argc))
        fullcmd == fixedCmd(cmdstring, fs)
    IN  IF fullcmd.crash
        THEN [crash |-> TRUE, command |-> <<>>, file |-> <<>>, argv |-> <<>>,
              used |-> Len(cmdstring) + 1, sizes |-> NoSizes]
        ELSE [crash |-> FALSE, command |-> fullcmd.str,
              file |-> command_shell(fullcmd.str, shell_env).file,
              argv |-> command_shell(fullcmd.str, shell_env).argv,
              used |-> Len(cmdstring) + 1, sizes |-> fullcmd.sizes]

\* Inputs.
ArgValues ==
    { <<"a">>, <<"/", "a">>, <<>>, <<"b", " ", "c">>, <<";">> }
ArgChoices(argc) == IF argc < MaxArgv THEN ArgValues ELSE { <<"a">> }
ArgLists(argc) ==
    {list \in {<<>>} \cup {<<x>> : x \in ArgChoices(argc)}
                     \cup {<<x, y>> : x \in ArgChoices(argc),
                                      y \in ArgChoices(argc + 1)} :
        argc + Len(list) <= MaxArgc}
Filenames == { <<"a">>, <<"/", "b", "/", "a">> }
CommandNames == { NullStr, <<"n">> }
ShellValues == { NullStr, <<>>, <<"z">> }
ShellCommands == { NullStr, <<"a">>, <<"a", " ", "b">> }

InitCommand ==
    /\ \E filename \in Filenames, name \in CommandNames :
         cmd = command_init(filename, name)
    /\ added = <<>>
    /\ shcmd = NullStr
    /\ envSHELL \in ShellValues
    /\ execfile = <<>>
    /\ execargv = <<>>
    /\ progargv = <<>>
    /\ cmdpc = "built"
    /\ ParseIdle /\ FormatIdle /\ FieldIdle /\ FsysIdle /\ DivertIdle
    /\ NameIdle /\ StatusIdle /\ LogIdle /\ BufIdle

CommandAddArg ==
    /\ cmdpc = "built"
    /\ cmd.argc < MaxArgc
    /\ \E arg \in ArgChoices(cmd.argc) :
         /\ cmd' = command_add_arg(cmd, arg)
         /\ added' = Append(added, arg)
    /\ UNCHANGED <<shcmd, envSHELL, execfile, execargv, progargv, cmdpc>>
    /\ UNCHANGED otherThanCommand

CommandAddArgl ==
    /\ cmdpc = "built"
    /\ \E list \in ArgLists(cmd.argc) :
         /\ cmd' = command_add_argl(cmd, list)
         /\ added' = added \o list
    /\ UNCHANGED <<shcmd, envSHELL, execfile, execargv, progargv, cmdpc>>
    /\ UNCHANGED otherThanCommand

CommandAddArgv ==
    /\ cmdpc = "built"
    /\ \E args \in ArgLists(cmd.argc) :
         /\ cmd' = command_add_argv(cmd, args)
         /\ added' = added \o args
    /\ UNCHANGED <<shcmd, envSHELL, execfile, execargv, progargv, cmdpc>>
    /\ UNCHANGED otherThanCommand

CommandAddArgs ==
    /\ cmdpc = "built"
    /\ \E args \in ArgLists(cmd.argc) :
         /\ cmd' = command_add_args(cmd, args)
         /\ added' = added \o args
    /\ UNCHANGED <<shcmd, envSHELL, execfile, execargv, progargv, cmdpc>>
    /\ UNCHANGED otherThanCommand

\* command_exec(cmd): execvp runs the program with cmd->argv, or fails and
\* ohshite ends the process.
CommandExec ==
    /\ cmdpc = "built"
    /\ \E ok \in BOOLEAN :
         IF ok
         THEN /\ cmdpc' = "command_exec"
              /\ execfile' = cmd.filename
              /\ execargv' = ArgvUpToNull(cmd.argv, 1)
              /\ progargv' = ArgvUpToNull(cmd.argv, 1)
         ELSE /\ cmdpc' = "ohshite"
              /\ UNCHANGED <<execfile, execargv, progargv>>
    /\ UNCHANGED <<cmd, added, shcmd, envSHELL>>
    /\ UNCHANGED otherThanCommand

\* command_shell(cmd, name): execlp runs the shell, or fails and ohshite
\* ends the process.  With a command the shell runs its first words as the
\* program.
CommandShell ==
    /\ cmdpc = "built"
    /\ \E command \in ShellCommands, ok \in BOOLEAN :
         /\ shcmd' = command
         /\ IF ok
            THEN /\ cmdpc' = "command_shell"
                 /\ execfile' = command_shell(command, envSHELL).file
                 /\ execargv' = command_shell(command, envSHELL).argv
                 /\ progargv' = IF command = NullStr
                                THEN command_shell(command, envSHELL).argv
                                ELSE ShellWords(command)
            ELSE /\ cmdpc' = "ohshite"
                 /\ UNCHANGED <<execfile, execargv, progargv>>
    /\ UNCHANGED <<cmd, added, envSHELL>>
    /\ UNCHANGED otherThanCommand

\* runcmd(cmd)
Runcmd ==
    /\ cmdpc = "built"
    /\ \E fs \in FsAnswers, ok \in BOOLEAN :
         LET r == runcmd(cmd, fs, envSHELL)
         IN  IF r.crash
             THEN /\ cmdpc' = "crash"
                  /\ UNCHANGED <<shcmd, execfile, execargv, progargv>>
             ELSE /\ shcmd' = r.command
                  /\ IF ok
                     THEN /\ cmdpc' = "runcmd"
                          /\ execfile' = r.file
                          /\ execargv' = r.argv
                          /\ progargv' = ShellWords(r.command)
                     ELSE /\ cmdpc' = "ohshite"
                          /\ UNCHANGED <<execfile, execargv, progargv>>
    /\ UNCHANGED <<cmd, added, envSHELL>>
    /\ UNCHANGED otherThanCommand

NextCommand ==
    \/ CommandAddArg
    \/ CommandAddArgl
    \/ CommandAddArgv
    \/ CommandAddArgs
    \/ CommandExec
    \/ CommandShell
    \/ Runcmd

\* A command is built and then run in one of the three ways.
SpecCommand == InitCommand /\ [][NextCommand]_vars

-----------------------------------------------------------------------------
(* dpkg-divert --add and --remove on the diversions database.  A record is  *)
(* the three lines of the file: the contested path, the path it is diverted *)
(* to, and the package, ":" for a local diversion.                          *)

Distrib == <<".", "d", "i", "s", "t", "r", "i", "b">>
LocalPackage == <<":">>

\* The records that name a path, as their contested path or as the path
\* diverted to.
RecordsOf(db, path) ==
    {r \in db : r.contested = path \/ r.divertto = path}

\* Mutant: only the contested path is checked against the database.
diversion_add_fromonly(db, file, divertto, package) ==
    LET to == IF divertto = NullStr THEN file \o Distrib ELSE divertto
        pkg == IF package = NullStr THEN LocalPackage ELSE package
        rec == [contested |-> file, divertto |-> to, package |-> pkg]
    IN  IF file = to
        THEN [db |-> db, out |-> "cannot divert file to itself", rc |-> 2]
        ELSE IF RecordsOf(db, file) # {}
        THEN IF rec \in db
             THEN [db |-> db, out |-> "Leaving", rc |-> 0]
             ELSE [db |-> db, out |-> "clashes", rc |-> 2]
        ELSE [db |-> db \cup {rec}, out |-> "Adding", rc |-> 0]

\* Mutant: a diversion that is already there clashes with itself.
diversion_add_noleave(db, file, divertto, package) ==
    LET to == IF divertto = NullStr THEN file \o Distrib ELSE divertto
        pkg == IF package = NullStr THEN LocalPackage ELSE package
        rec == [contested |-> file, divertto |-> to, package |-> pkg]
    IN  IF file = to
        THEN [db |-> db, out |-> "cannot divert file to itself", rc |-> 2]
        ELSE IF RecordsOf(db, file) \cup RecordsOf(db, to) # {}
        THEN [db |-> db, out |-> "clashes", rc |-> 2]
        ELSE [db |-> db \cup {rec}, out |-> "Adding", rc |-> 0]

\* dpkg-divert [--divert divertto] [--package package] --add file.  Without
\* --divert the file is diverted to file.distrib, without --package the
\* diversion is local.
diversion_add(db, file, divertto, package) ==
    LET to == IF divertto = NullStr THEN file \o Distrib ELSE divertto
        pkg == IF package = NullStr THEN LocalPackage ELSE package
        rec == [contested |-> file, divertto |-> to, package |-> pkg]
    IN  IF file = to
        THEN [db |-> db, out |-> "cannot divert file to itself", rc |-> 2]
        ELSE IF RecordsOf(db, file) \cup RecordsOf(db, to) # {}
        THEN IF rec \in db
             THEN [db |-> db, out |-> "Leaving", rc |-> 0]
             ELSE [db |-> db, out |-> "clashes", rc |-> 2]
        ELSE [db |-> db \cup {rec}, out |-> "Adding", rc |-> 0]

\* Mutant: --remove does not compare the package.
diversion_remove_anypackage(db, file, divertto, package) ==
    LET recs == {r \in db : r.contested = file}
        rec == CHOOSE r \in recs : TRUE
    IN  IF recs = {}
        THEN [db |-> db, out |-> "No diversion", rc |-> 0]
        ELSE IF divertto # NullStr /\ divertto # rec.divertto
        THEN [db |-> db, out |-> "mismatch on divert-to", rc |-> 2]
        ELSE [db |-> db \ {rec}, out |-> "Removing", rc |-> 0]

\* dpkg-divert [--divert divertto] [--package package] --remove file.
\* Without --package the diversion of any package matches.
diversion_remove(db, file, divertto, package) ==
    LET recs == {r \in db : r.contested = file}
        rec == CHOOSE r \in recs : TRUE
    IN  IF recs = {}
        THEN [db |-> db, out |-> "No diversion", rc |-> 0]
        ELSE IF divertto # NullStr /\ divertto # rec.divertto
        THEN [db |-> db, out |-> "mismatch on divert-to", rc |-> 2]
        ELSE IF package # NullStr /\ package # rec.package
        THEN [db |-> db, out |-> "mismatch on package", rc |-> 2]
        ELSE [db |-> db \ {rec}, out |-> "Removing", rc |-> 0]

\* Inputs.
DivertFiles ==
    { <<"/", "f">>, <<"/", "g">>, <<"/", "f">> \o Distrib }
DivertTos ==
    { NullStr, <<"/", "f">>, <<"/", "g">>, <<"/", "h">>,
      <<"/", "f">> \o Distrib }
DivertPackages == { NullStr, <<"p">> }

InitDivert ==
    /\ divdb = {}
    /\ divop = "none"
    /\ divarg = [file |-> <<>>, divertto |-> <<>>, package |-> <<>>]
    /\ divout = "none"
    /\ divrc = 0
    /\ ParseIdle /\ FormatIdle /\ FieldIdle /\ FsysIdle /\ CommandIdle
    /\ NameIdle /\ StatusIdle /\ LogIdle /\ BufIdle

\* One run of dpkg-divert --add; the database gets at most MaxDiversions
\* records.
DivertAdd ==
    /\ \E file \in DivertFiles, to \in DivertTos, package \in DivertPackages :
         LET r == diversion_add(divdb, file, to, package)
         IN  /\ Cardinality(r.db) <= MaxDiversions
             /\ divdb' = r.db
             /\ divop' = "add"
             /\ divarg' = [file |-> file, divertto |-> to, package |-> package]
             /\ divout' = r.out
             /\ divrc' = r.rc
    /\ UNCHANGED otherThanDivert

\* One run of dpkg-divert --remove.
DivertRemove ==
    /\ \E file \in DivertFiles, to \in DivertTos, package \in DivertPackages :
         LET r == diversion_remove(divdb, file, to, package)
         IN  /\ divdb' = r.db
             /\ divop' = "remove"
             /\ divarg' = [file |-> file, divertto |-> to, package |-> package]
             /\ divout' = r.out
             /\ divrc' = r.rc
    /\ UNCHANGED otherThanDivert

NextDivert ==
    \/ DivertAdd
    \/ DivertRemove

\* The diversions database under dpkg-divert --add and --remove.
SpecDivert == InitDivert /\ [][NextDivert]_vars

-----------------------------------------------------------------------------
(* The version grammar, stated on the text itself; the properties below     *)
(* compare the parser with it.                                              *)

IsBlankChar(c) == c = " " \/ c = "\t"
NonBlankAt(s) == {i \in 1..Len(s) : ~IsBlankChar(s[i])}
SetMin(S) == CHOOSE x \in S : \A y \in S : x <= y
SetMax(S) == CHOOSE x \in S : \A y \in S : x >= y

\* s without its leading and trailing blanks.
Trimmed(s) ==
    IF NonBlankAt(s) = {} THEN <<>>
    ELSE SubSeq(s, SetMin(NonBlankAt(s)), SetMax(NonBlankAt(s)))

\* A blank between two non-blank characters.
HasEmbeddedBlank(s) ==
    \E i, j, k \in 1..Len(s) :
        i < j /\ j < k /\ ~IsBlankChar(s[i]) /\ IsBlankChar(s[j]) /\
        ~IsBlankChar(s[k])

Positions(s, c) == {i \in 1..Len(s) : s[i] = c}
AllDigits(s) == \A i \in 1..Len(s) : s[i] \in DigitChars

\* The text before the first ':' of the trimmed text, and the text after it
\* (the whole trimmed text when there is no ':').
EpochText(s) ==
    LET t == Trimmed(s)
    IN  SubSeq(t, 1, SetMin(Positions(t, ":")) - 1)
BodyText(s) ==
    LET t == Trimmed(s)
    IN  IF Positions(t, ":") = {} THEN t
        ELSE SubSeq(t, SetMin(Positions(t, ":")) + 1, Len(t))
HasEpoch(s) == Positions(Trimmed(s), ":") # {}

\* The epoch prefix is a non-empty run of digits of value at most INT_MAX.
EpochTextOk(s) ==
    /\ EpochText(s) # <<>>
    /\ AllDigits(EpochText(s))
    /\ ~MagGt(EpochText(s), INT_MAX_Digits)
EpochOf(s) == IF HasEpoch(s) THEN MagValue(EpochText(s)) ELSE 0

\* The body split at its last '-'.
UpstreamOf(s) ==
    LET b == BodyText(s)
    IN  IF Positions(b, "-") = {} THEN b
        ELSE SubSeq(b, 1, SetMax(Positions(b, "-")) - 1)
RevisionOf(s) ==
    LET b == BodyText(s)
    IN  IF Positions(b, "-") = {} THEN <<>>
        ELSE SubSeq(b, SetMax(Positions(b, "-")) + 1, Len(b))
HasRevisionSeparator(s) == Positions(BodyText(s), "-") # {}

\* The text passes the blank and the epoch checks.
PassesBlankAndEpoch(s) ==
    /\ Trimmed(s) # <<>>
    /\ ~HasEmbeddedBlank(s)
    /\ HasEpoch(s) => EpochTextOk(s) /\ BodyText(s) # <<>>

\* ... and the revision split.
PassesSplit(s) ==
    /\ PassesBlankAndEpoch(s)
    /\ HasRevisionSeparator(s) => RevisionOf(s) # <<>>

UpstreamCharOk(c) ==
    c \in DigitChars \/ c \in LowerChars \/ c \in UpperChars \/
    c \in {".", "-", "+", "~", ":"}
RevisionCharOk(c) ==
    c \in DigitChars \/ c \in LowerChars \/ c \in UpperChars \/
    c \in {".", "+", "~"}
UpstreamCharsOk(u) == \A i \in 1..Len(u) : UpstreamCharOk(u[i])
RevisionCharsOk(r) == \A i \in 1..Len(r) : RevisionCharOk(r[i])

HardError(msg) == [type |-> "DPKG_MSG_ERROR", str |-> msg]
Warning(msg) == [type |-> "DPKG_MSG_WARN", str |-> msg]

\* A version in the domain of the round trip: epoch in 0..INT_MAX, a
\* non-empty upstream starting with a digit, valid characters only.
RoundTripDomain(v) ==
    /\ v.epoch >= 0 /\ v.epoch <= INT_MAX
    /\ v.version # NullStr /\ v.revision # NullStr
    /\ v.version # <<>>
    /\ v.version[1] \in DigitChars
    /\ UpstreamCharsOk(v.version)
    /\ RevisionCharsOk(v.revision)

-----------------------------------------------------------------------------
(* Properties of the version formatter and parser. *)

\* C1 (as stated): formatting a version of the round-trip domain with
\* vdew_nonambig or vdew_always and parsing the text back succeeds and gives
\* the same epoch, upstream and revision.
C1_RoundTripAsStated ==
    (fpc = "done" /\ vdew \in {"vdew_nonambig", "vdew_always"} /\
     RoundTripDomain(fversion))
        => prc = 0 /\ pversion = fversion

\* C1 (amended): the round trip holds for the versions of the domain whose
\* upstream has no '-' or whose revision is not empty.
C1_RoundTrip ==
    (fpc = "done" /\ vdew \in {"vdew_nonambig", "vdew_always"} /\
     RoundTripDomain(fversion) /\
     (Positions(fversion.version, "-") = {} \/ fversion.revision # <<>>))
        => prc = 0 /\ pversion = fversion

C1_Witness ==
    /\ fpc = "done"
    /\ vdew = "vdew_nonambig"
    /\ RoundTripDomain(fversion)
    /\ fversion.epoch = 0
    /\ Positions(fversion.version, ":") # {}
    /\ Positions(fversion.version, "-") # {}
    /\ fversion.revision # <<>>
    /\ pversion = fversion

\* C2: the text after the epoch is split at its last '-': upstream before it,
\* revision after it; an empty text after the last '-' is the hard error
\* "revision number is empty"; without a '-' the revision is empty and the
\* whole text is the upstream.
C2_SplitAtLastHyphen ==
    (vpc = "parsed" /\ PassesBlankAndEpoch(string))
        => IF HasRevisionSeparator(string)
           THEN IF RevisionOf(string) = <<>>
                THEN rc = -1 /\ err = HardError("revision number is empty")
                ELSE /\ rversion.version = UpstreamOf(string)
                     /\ rversion.revision = RevisionOf(string)
                     /\ err # HardError("revision number is empty")
           ELSE /\ rversion.version = BodyText(string)
                /\ rversion.revision = <<>>

C2_Witness ==
    /\ vpc = "parsed"
    /\ PassesBlankAndEpoch(string)
    /\ Cardinality(Positions(BodyText(string), "-")) >= 2
    /\ rc = 0
    /\ Positions(rversion.version, "-") # {}
    /\ rversion.revision # <<>>

\* C3: an epoch prefix N: is accepted only when N is a non-empty run of
\* decimal digits, ending at the first ':', of value at most INT_MAX, with
\* text after the ':'; then epoch = N.  Every other prefix is a hard error.
\* A text without ':' gets epoch 0.
C3_EpochPrefix ==
    (vpc = "parsed" /\ Trimmed(string) # <<>> /\ ~HasEmbeddedBlank(string))
        => IF HasEpoch(string)
           THEN IF EpochTextOk(string) /\ BodyText(string) # <<>>
                THEN rversion.epoch = EpochOf(string)
                ELSE rc = -1 /\ err.type = "DPKG_MSG_ERROR"
           ELSE rversion.epoch = 0

\* C4: leading and trailing blanks are ignored: a text without embedded
\* blanks parses as the text without its leading and trailing blanks does; a
\* blank between two non-blank characters is the hard error "version string
\* has embedded spaces"; a text of blanks only is rejected as empty.
C4_BlanksIgnored ==
    vpc = "parsed"
        => /\ ~HasEmbeddedBlank(string)
                => Ret(rc, err, rversion) =
                       parseversion(BlankVersion, Trimmed(string), NoError)
           /\ HasEmbeddedBlank(string)
                => rc = -1 /\
                   err = HardError("version string has embedded spaces")
           /\ Trimmed(string) = <<>>
                => rc = -1 /\ err = HardError("version string is empty")

C4_Witness ==
    /\ vpc = "parsed"
    /\ string = <<"\t", " ", "1", ":", "1", "-", "1", " ">>
    /\ rc = 0
    /\ rversion = [epoch |-> 1, version |-> <<"1">>, revision |-> <<"1">>]

\* C5: a non-empty upstream that does not begin with a digit, in a text that
\* passes the blank, epoch and revision checks, gives -1 with a warning-type
\* error, and the output version holds the epoch, upstream and revision of
\* the text.
C5_NoDigitIsWarning ==
    (vpc = "parsed" /\ PassesSplit(string) /\ UpstreamOf(string) # <<>> /\
     UpstreamOf(string)[1] \notin DigitChars)
        => /\ rc = -1
           /\ err = Warning("version number does not start with digit")
           /\ rversion = [epoch |-> EpochOf(string),
                          version |-> UpstreamOf(string),
                          revision |-> RevisionOf(string)]

C5_Witness ==
    /\ vpc = "parsed"
    /\ PassesSplit(string)
    /\ HasEpoch(string)
    /\ HasRevisionSeparator(string)
    /\ UpstreamOf(string) # <<>>
    /\ UpstreamOf(string)[1] = "a"
    /\ err.type = "DPKG_MSG_WARN"
    /\ rversion.epoch = INT_MAX

\* C6: for a text that passes the blank, epoch and revision checks and whose
\* upstream starts with a digit, the result is 0 exactly when every upstream
\* character is a digit, a letter or one of . - + ~ : and every revision
\* character is a digit, a letter or one of . + ~; otherwise the error is a
\* warning naming the upstream or the revision.
C6_CharacterValidation ==
    (vpc = "parsed" /\ PassesSplit(string) /\ UpstreamOf(string) # <<>> /\
     UpstreamOf(string)[1] \in DigitChars)
        => /\ rc = 0 <=> (UpstreamCharsOk(UpstreamOf(string)) /\
                          RevisionCharsOk(RevisionOf(string)))
           /\ ~UpstreamCharsOk(UpstreamOf(string))
                => rc = -1 /\
                   err = Warning("invalid character in version number")
           /\ (UpstreamCharsOk(UpstreamOf(string)) /\
               ~RevisionCharsOk(RevisionOf(string)))
                => rc = -1 /\
                   err = Warning("invalid character in revision number")

C6_Witness ==
    /\ vpc = "parsed"
    /\ PassesSplit(string)
    /\ UpstreamOf(string) # <<>>
    /\ UpstreamOf(string)[1] \in DigitChars
    /\ RevisionOf(string) = <<":">>
    /\ err = Warning("invalid character in revision number")

\* C7: a text whose upstream portion is empty is rejected with a hard error,
\* never accepted and never a warning.
C7_EmptyUpstreamRejected ==
    (vpc = "parsed" /\ UpstreamOf(string) = <<>>)
        => rc = -1 /\ err.type = "DPKG_MSG_ERROR"

C7_Witness ==
    /\ vpc = "parsed"
    /\ PassesSplit(string)
    /\ HasEpoch(string)
    /\ UpstreamOf(string) = <<>>
    /\ RevisionOf(string) # <<>>
    /\ err = HardError("version number is empty")

\* C8 (as stated): with the lax flag every failure of the parse is downgraded
\* to a warning and the call returns; without it every failure is fatal.
C8_LaxDowngradesAll ==
    (vpc = "db_done" /\ rc # 0)
        => IF pdb_lax_version_parser \in psflags
           THEN dbresult = "parse_warn"
           ELSE dbresult = "parse_error"

\* C8 (amended): with the lax flag every warning-type failure is downgraded
\* to a warning and the call returns; a hard error is fatal with or without
\* the flag, and without the flag every failure is fatal.
C8_LaxDowngradesWarnings ==
    vpc = "db_done"
        => /\ rc = 0 => dbresult = "return"
           /\ (rc # 0 /\ pdb_lax_version_parser \in psflags /\
               err.type = "DPKG_MSG_WARN") => dbresult = "parse_warn"
           /\ (rc # 0 /\ err.type = "DPKG_MSG_ERROR")
                => dbresult = "parse_error"
           /\ (rc # 0 /\ pdb_lax_version_parser \notin psflags)
                => dbresult = "parse_error"

C8_Witness ==
    /\ vpc = "db_done"
    /\ pdb_lax_version_parser \in psflags
    /\ rc = -1
    /\ err.type = "DPKG_MSG_ERROR"
    /\ dbresult = "parse_error"

-----------------------------------------------------------------------------
(* Properties of the field lookup. *)

\* Two names are equal ignoring ASCII case.
SameIgnoringCase(a, b) ==
    /\ Len(a) = Len(b)
    /\ \A i \in 1..Len(a) :
         \/ a[i] = b[i]
         \/ \E k \in 1..26 : {a[i], b[i]} = {LowerSeq[k], UpperSeq[k]}

\* The positions, in list order, of the arbitraryfield nodes: position 1 is
\* the head.
RECURSIVE ArbOrder(_, _)
ArbOrder(list, n) ==
    IF n = 0 THEN <<>> ELSE <<n>> \o ArbOrder(list, list.node[n].next)

\* C9: the lookup returns the first entry, in table (list) order, whose name
\* equals the requested name ignoring ASCII case; NULL exactly when no entry
\* matches; two requested names that differ only in case get the same entry.
C9_CaseInsensitiveLookup ==
    /\ fldpc = "field_done" =>
         LET match == {i \in 1..Len(fields) :
                          SameIgnoringCase(fields[i].name, fieldname)}
         IN  /\ found = (IF match = {} THEN 0 ELSE SetMin(match))
             /\ \A other \in FieldNames :
                  SameIgnoringCase(other, fieldname)
                      => find_field_info(fields, other) = found
    /\ fldpc = "arb_done" =>
         LET order == ArbOrder(arbs, arbs.head)
             match == {i \in 1..Len(order) :
                          SameIgnoringCase(arbs.node[order[i]].name, fieldname)}
         IN  /\ arbfound = (IF match = {} THEN 0 ELSE order[SetMin(match)])
             /\ \A other \in FieldNames :
                  SameIgnoringCase(other, fieldname)
                      => find_arbfield_info(arbs, other) = arbfound

C9_Witness ==
    /\ fldpc = "field_done"
    /\ Len(fields) = 3
    /\ fieldname = <<"a", "B">>
    /\ fields[1].name = <<"b", "a">>
    /\ fields[2].name = <<"A", "b">>
    /\ fields[3].name = <<"a", "B">>
    /\ found = 2

-----------------------------------------------------------------------------
(* Properties of the filesystem node table. *)

\* C10: nodes are interned by normalized path: two lookups that return a
\* node and whose paths are equal after stripping the leading '/' characters
\* and "./" pairs return the same node; the table holds at most one node per
\* normalized path; the node's stored name is '/' followed by the stripped
\* path, whether the name was copied or borrowed.
C10_InternedByNormalizedPath ==
    /\ \A r1, r2 \in returned : r1.key = r2.key => r1.node = r2.node
    /\ \A n1, n2 \in TableNodes :
         StripLeading(fnode[n1].name) = StripLeading(fnode[n2].name)
             => n1 = n2
    /\ \A r \in returned :
         /\ r.node \in TableNodes
         /\ fnode[r.node].name = <<"/">> \o r.key
    /\ fspc = "run"

C10_Witness ==
    /\ Len(fnode) = 2
    /\ fnode[1].borrowed /\ ~fnode[2].borrowed
    /\ fnode[1].name = <<"/", "a", "b">>
    /\ fnode[2].name = <<"/", "b", "a">>
    /\ fnode[1].next = 2
    /\ returned = {[key |-> <<"a", "b">>, node |-> 1],
                   [key |-> <<"b", "a">>, node |-> 2]}

\* A canonical absolute path: it begins with '/', has no repeated slash and
\* no "./" segment.
CanonicalPath(name) ==
    /\ At(name, 1) = "/"
    /\ \A i \in 1..Len(name) :
         /\ ~(name[i] = "/" /\ At(name, i + 1) = "/")
         /\ ~(name[i] = "/" /\ At(name, i + 1) = "." /\ At(name, i + 2) = "/")

\* C11 (as stated): the stored name of every node of the table is a
\* canonical absolute path, whatever paths were looked up.
C11_NamesCanonical ==
    \A n \in TableNodes : CanonicalPath(fnode[n].name)

\* C11 (amended): the stored name of every node begins with exactly one '/'
\* and the text after it does not begin with '/' or "./"; the rest of the
\* name is the rest of the path as it was given.
C11_NamesLeadingCanonical ==
    /\ \A n \in 1..Len(fnode) :
         /\ At(fnode[n].name, 1) = "/"
         /\ StripLeading(Tail(fnode[n].name)) = Tail(fnode[n].name)
    /\ fsop = "find" /\ fsret # 0
         => fnode[fsret].name = <<"/">> \o StripLeading(fsarg.name)
    /\ fspc = "run"

C11_Witness ==
    /\ fsop = "find"
    /\ fsret \in TableNodes
    /\ fnode[fsret].name = <<"/", "a", "/", "/", "b">>
    /\ fnode[fsret].borrowed

\* The nodes of the table whose name is the normalized path.
NodesAt(path) ==
    {n \in TableNodes : fnode[n].name = <<"/">> \o StripLeading(path)}

\* A node as a miss leaves it: no owners, no diversion, no stat override, no
\* trigger interest, flags 0, no old hash.
FreshNode(node) ==
    /\ node.packages = {}
    /\ node.divert = 0
    /\ node.statoverride = 0
    /\ node.trig_interested = 0
    /\ node.flags = {}
    /\ node.oldhash = 0

\* A node without its link to the next node of its chain.
Unlinked(node) == [node EXCEPT !.next = 0]

\* C12: a lookup with FHFF_NONE of a path without a node returns NULL and
\* leaves the table and fsys_hash_entries() unchanged; a lookup without
\* FHFF_NONE of such a path adds exactly one node, a fresh one, and raises
\* fsys_hash_entries() by one; a lookup of a path that has a node never
\* changes the table.
C12_LookupEffect ==
    [][fsop' = "find" =>
         IF NodesAt(fsarg'.name) # {}
         THEN /\ fsret' \in NodesAt(fsarg'.name)
              /\ <<bins, fnode, nfiles>>' = <<bins, fnode, nfiles>>
         ELSE IF FHFF_NONE \in fsarg'.flags
         THEN /\ fsret' = 0
              /\ <<bins, fnode, nfiles>>' = <<bins, fnode, nfiles>>
         ELSE /\ fsret' = Len(fnode) + 1
              /\ Len(fnode') = Len(fnode) + 1
              /\ NodesOf(bins', fnode') = TableNodes \cup {fsret'}
              /\ FreshNode(fnode'[fsret'])
              /\ \A n \in 1..Len(fnode) :
                   Unlinked(fnode'[n]) = Unlinked(fnode[n])
              /\ fsys_hash_entries(nfiles') = fsys_hash_entries(nfiles) + 1
      ]_vars

C12_Witness ==
    /\ fsop = "find"
    /\ FHFF_NONE \notin fsarg.flags
    /\ fsret = 2
    /\ fnode[1].next = 2
    /\ fnode[1].packages = {"pkg"}
    /\ FreshNode(fnode[2])
    /\ fsys_hash_entries(nfiles) = 2

\* C13 (as stated): fsys_hash_reset clears the transient flags of every node
\* and preserves identity and owners: a lookup after the reset of a path that
\* had a node finds the same node with the same owners, and
\* fsys_hash_entries() is as before.
C13_ResetPreservesNodes ==
    [][fsop' = "reset" =>
         /\ \A n \in TableNodes :
              /\ fsys_hash_find_node(bins', fnode', nfiles',
                                     Tail(fnode[n].name), {FHFF_NONE}).ret = n
              /\ fnode'[n].packages = fnode[n].packages
              /\ fnode'[n].flags = {}
         /\ fsys_hash_entries(nfiles') = fsys_hash_entries(nfiles)
      ]_vars

\* C13 (amended): fsys_hash_reset empties the table and leaves the nodes as
\* they are: after it fsys_hash_entries() is 0, a lookup with FHFF_NONE
\* returns NULL for every path, and a lookup without it creates a new node,
\* which is none of the earlier nodes.
C13_ResetEmptiesTable ==
    [][fsop' = "reset" =>
         /\ fsys_hash_entries(nfiles') = 0
         /\ NodesOf(bins', fnode') = {}
         /\ fnode' = fnode
         /\ \A path \in TablePaths :
              /\ fsys_hash_find_node(bins', fnode', nfiles', path,
                                     {FHFF_NONE}).ret = 0
              /\ fsys_hash_find_node(bins', fnode', nfiles', path,
                                     {}).ret \notin 1..Len(fnode)
      ]_vars

C13_Witness ==
    /\ fsop = "reset"
    /\ Len(fnode) = 2
    /\ fnode[1].next = 2
    /\ fnode[1].packages = {"pkg"}
    /\ fnode[2].flags # {}
    /\ TableNodes = {}
    /\ nfiles = 0

\* C14: fsys_hash_init sets, for every node of the table, flags to 0,
\* oldhash to none, newhash to the empty-hash marker and the on-disk identity
\* to none; it leaves the name, owners, diversion, stat override and trigger
\* interest of every node, the set of nodes and fsys_hash_entries() unchanged.
C14_InitClearsRunState ==
    [][fsop' = "init" =>
         /\ bins' = bins
         /\ NodesOf(bins', fnode') = TableNodes
         /\ fsys_hash_entries(nfiles') = fsys_hash_entries(nfiles)
         /\ Len(fnode') = Len(fnode)
         /\ \A n \in TableNodes :
              /\ fnode'[n].flags = {}
              /\ fnode'[n].oldhash = 0
              /\ fnode'[n].newhash = EMPTYHASHFLAG
              /\ fnode'[n].file_ondisk_id = 0
              /\ fnode'[n].name = fnode[n].name
              /\ fnode'[n].next = fnode[n].next
              /\ fnode'[n].packages = fnode[n].packages
              /\ fnode'[n].divert = fnode[n].divert
              /\ fnode'[n].statoverride = fnode[n].statoverride
              /\ fnode'[n].trig_interested = fnode[n].trig_interested
      ]_vars

C14_Witness ==
    /\ fsop = "init"
    /\ TableNodes = {1, 2}
    /\ fnode[1].next = 2
    /\ fnode[1].packages = {"pkg"} /\ fnode[1].divert = 1
    /\ fnode[2].packages = {"pkg"} /\ fnode[2].trig_interested = 1
    /\ \A n \in {1, 2} :
         fnode[n].flags = {} /\ fnode[n].newhash = EMPTYHASHFLAG

\* C15: while no node is created and the table is not reset since
\* fsys_hash_iter_new, the calls of fsys_hash_iter_next return nodes of the
\* table, none twice; once a call returned NULL every node of the table has
\* been returned, their number is fsys_hash_entries(), and every further
\* call returns NULL.
C15_IteratorCoversTable ==
    (iter # NoIter /\ ~iterdirty) =>
        LET got == {i \in 1..Len(iterated) : iterated[i] # 0}
        IN  /\ \A i \in got : iterated[i] \in TableNodes
            /\ \A i, j \in got : iterated[i] = iterated[j] => i = j
            /\ \A i \in 1..Len(iterated) :
                 iterated[i] = 0 =>
                    /\ \A j \in i..Len(iterated) : iterated[j] = 0
                    /\ {iterated[k] : k \in got} = TableNodes
                    /\ Cardinality(got) = fsys_hash_entries(nfiles)

C15_Witness ==
    /\ iter # NoIter /\ ~iterdirty
    /\ iterated = <<1, 2, 0, 0>>
    /\ fnode[1].next = 2
    /\ fsys_hash_entries(nfiles) = 2

-----------------------------------------------------------------------------
(* Properties of command execution. *)

\* C16: the argument vector the program run by runcmd receives equals
\* cmd->argv, element by element, as it does with command_exec.
C16_RuncmdPreservesArgv ==
    cmdpc = "runcmd" => progargv = SubSeq(cmd.argv, 1, cmd.argc)

\* With command_exec the program receives cmd->argv.
CommandExecPreservesArgv ==
    cmdpc = "command_exec" => progargv = SubSeq(cmd.argv, 1, cmd.argc)

\* C17: after command_init and any sequence of command_add_arg,
\* command_add_argl, command_add_argv and command_add_args, argv[0..argc-1]
\* is the concatenation of the added arguments in call order, argc is their
\* number and argv[argc] is NULL.
C17_ArgvIsWhatWasAdded ==
    /\ cmd.argc = Len(added)
    /\ cmd.argc + 1 <= Len(cmd.argv)
    /\ SubSeq(cmd.argv, 1, cmd.argc) = added
    /\ cmd.argv[cmd.argc + 1] = NullStr
    /\ Len(cmd.argv) = cmd.argv_size

C17_Witness ==
    /\ cmd.argc = MaxArgc
    /\ cmd.argv_size > 10
    /\ added[1] = <<>>
    /\ added[2] = <<"b", " ", "c">>
    /\ cmd.argv[cmd.argc + 1] = NullStr

\* C18: command_shell with a NULL command executes the shell named by SHELL
\* (the default shell when SHELL is unset or empty) with -i; with a command
\* it executes the default shell with -c and the command, whatever SHELL is;
\* it never returns: its call ends in the exec or in the fatal error.
C18_CommandShell ==
    /\ (cmdpc = "command_shell" /\ shcmd = NullStr) =>
          /\ execfile = (IF envSHELL = NullStr \/ envSHELL = <<>>
                         THEN DEFAULTSHELL ELSE envSHELL)
          /\ execargv = <<execfile, <<"-", "i">> >>
    /\ (cmdpc = "command_shell" /\ shcmd # NullStr) =>
          /\ execfile = DEFAULTSHELL
          /\ execargv = <<DEFAULTSHELL, <<"-", "c">>, shcmd>>
    /\ cmdpc \in {"built", "command_exec", "command_shell", "runcmd",
                  "ohshite", "crash"}

C18_Witness ==
    /\ cmdpc = "command_shell"
    /\ shcmd = <<"a", " ", "b">>
    /\ envSHELL = <<"z">>
    /\ execfile = DEFAULTSHELL

-----------------------------------------------------------------------------
(* Properties of the diversions database. *)

\* The paths of a record.
PathsOf(r) == {r.contested, r.divertto}

\* The record an add asks for.
AskedRecord(arg) ==
    [contested |-> arg.file,
     divertto |-> IF arg.divertto = NullStr THEN arg.file \o Distrib
                  ELSE arg.divertto,
     package |-> IF arg.package = NullStr THEN LocalPackage ELSE arg.package]

C20_AddIdempotent ==
    [][divop' = "add" =>
         /\ (divdb = {} /\ divarg'.divertto = NullStr /\
             divarg'.package = NullStr)
               => /\ divdb' = {[contested |-> divarg'.file,
                                divertto |-> divarg'.file \o Distrib,
                                package |-> <<":">>]}
                  /\ divout' = "Adding" /\ divrc' = 0
         /\ AskedRecord(divarg') \in divdb
               => divout' = "Leaving" /\ divrc' = 0 /\ divdb' = divdb
      ]_vars

C20_Witness ==
    /\ divop = "add"
    /\ divout = "Leaving"
    /\ divrc = 0
    /\ divarg = [file |-> <<"/", "f">>, divertto |-> NullStr,
                 package |-> NullStr]
    /\ divdb = {[contested |-> <<"/", "f">>,
                 divertto |-> <<"/", "f">> \o Distrib,
                 package |-> LocalPackage]}

\* The records of the database whose contested path is the file of a
\* command.
ContestedBy(db, arg) == {r \in db : r.contested = arg.file}

\* What --remove does with the one record of the file when that record
\* matches (match) or not: the record and no other is removed, or the
\* command fails and the database is as it was.
RemoveOutcome(db, arg, rec, toMatches, pkgMatches, db2, out, code) ==
    IF toMatches /\ pkgMatches
    THEN db2 = db \ {rec} /\ out = "Removing" /\ code = 0
    ELSE /\ db2 = db
         /\ code # 0
         /\ out \in {"mismatch on divert-to", "mismatch on package"}
         /\ pkgMatches => out = "mismatch on divert-to"
         /\ toMatches => out = "mismatch on package"

-----------------------------------------------------------------------------
(* The status file descriptors (log.c).  The formatted text is what         *)
(* varbuf_vprintf leaves in the varbuf.                                     *)

\* varbuf_map_char(v, c_src, c_dst)
varbuf_map_char(buf, c_src, c_dst) ==
    [i \in 1..Len(buf) |-> IF buf[i] = c_src THEN c_dst ELSE buf[i]]

\* varbuf_add_char(v, c)
varbuf_add_char(buf, c) == Append(buf, c)

\* statusfd_add(fd): the new struct pipef becomes the head of the list.
statusfd_add(pipes, fd) == <<fd>> \o pipes

\* The loop of statusfd_send over the list: one fd_write of the buffer per
\* struct pipef, up to and including the first that fails (failing is its
\* position in the list, 0 when every write succeeds).
RECURSIVE statusfd_write_loop(_, _, _)
statusfd_write_loop(pipes, buf, failing) ==
    IF pipes = <<>> THEN <<>>
    ELSE IF failing = 1
    THEN <<[fd |-> Head(pipes), buf |-> buf, ok |-> FALSE]>>
    ELSE <<[fd |-> Head(pipes), buf |-> buf, ok |-> TRUE]>> \o
         statusfd_write_loop(Tail(pipes), buf, failing - 1)

\* Mutant: the text is sent as it was formatted.
statusfd_send_unsanitized(pipes, text, failing) ==
    IF pipes = <<>> THEN [writes |-> <<>>, fatal |-> FALSE]
    ELSE [writes |-> statusfd_write_loop(pipes, varbuf_add_char(text, "\n"),
                                         failing),
          fatal |-> failing # 0]

\* statusfd_send(fmt, ...): the writes made and whether ohshite was called.
statusfd_send(pipes, text, failing) ==
    IF pipes = <<>> THEN [writes |-> <<>>, fatal |-> FALSE]
    ELSE LET vbuf == varbuf_add_char(varbuf_map_char(text, "\n", " "), "\n")
         IN  [writes |-> statusfd_write_loop(pipes, vbuf, failing),
              fatal |-> failing # 0]

Fds == 1..MaxFd
StatusTexts == StrUpTo({"a", "\n"}, MaxText)

InitStatus ==
    /\ status_pipes = <<>>
    /\ stfmt = <<>>
    /\ stwrites = <<>>
    /\ stop = "none"
    /\ stpc = "run"
    /\ EarlierIdle /\ NameIdle /\ LogIdle /\ BufIdle

StatusfdAdd ==
    /\ stpc = "run"
    /\ Len(status_pipes) < MaxPipes
    /\ \E fd \in Fds : status_pipes' = statusfd_add(status_pipes, fd)
    /\ stop' = "add"
    /\ UNCHANGED <<stfmt, stwrites, stpc>>
    /\ UNCHANGED otherThanStatus

StatusfdSend ==
    /\ stpc = "run"
    /\ \E text \in StatusTexts, failing \in 0..Len(status_pipes) :
         LET r == statusfd_send(status_pipes, text, failing)
         IN  /\ stfmt' = text
             /\ stwrites' = r.writes
             /\ stpc' = IF r.fatal THEN "ohshite" ELSE "run"
    /\ stop' = "send"
    /\ UNCHANGED status_pipes
    /\ UNCHANGED otherThanStatus

NextStatus == StatusfdAdd \/ StatusfdSend

SpecStatus == InitStatus /\ [][NextStatus]_vars

\* The text is one line: it ends with a newline and has no other.
IsOneLine(b) ==
    /\ Len(b) >= 1
    /\ b[Len(b)] = "\n"
    /\ \A i \in 1..(Len(b) - 1) : b[i] # "\n"

\* The text with a space for every newline.
NewlinesAsSpaces(t) == [i \in 1..Len(t) |-> IF t[i] = "\n" THEN " " ELSE t[i]]

DeliveredTo(fd) ==
    {i \in 1..Len(stwrites) : stwrites[i].fd = fd /\ stwrites[i].ok}
RegistrationsOf(fd) ==
    {i \in 1..Len(status_pipes) : status_pipes[i] = fd}

\* What the claim says of everything but the number of messages: without a
\* registered descriptor nothing is done; every write is to a registered
\* descriptor and is the formatted text, newlines replaced by spaces,
\* followed by one newline; a failed write is fatal, and nothing else is.
StatusSendShape ==
    /\ status_pipes = <<>> => stwrites = <<>> /\ stpc = "run"
    /\ \A i \in 1..Len(stwrites) :
         /\ RegistrationsOf(stwrites[i].fd) # {}
         /\ IsOneLine(stwrites[i].buf)
         /\ stwrites[i].buf = Append(NewlinesAsSpaces(stfmt), "\n")
    /\ (stpc = "ohshite") <=> (\E i \in 1..Len(stwrites) : ~stwrites[i].ok)

\* C22 (as stated): a statusfd_send whose writes all succeed delivers to
\* every registered descriptor exactly one message, a single line; with no
\* descriptor registered it does nothing; a failed write is fatal.
C22_OneMessagePerDescriptor ==
    stop = "send"
        => /\ StatusSendShape
           /\ stpc = "run"
                => \A fd \in Fds :
                     RegistrationsOf(fd) # {}
                        => Cardinality(DeliveredTo(fd)) = 1

\* C22 (amended): the same with one message per registration: a descriptor
\* that statusfd_add registered n times receives the message n times.
C22_OneMessagePerRegistration ==
    stop = "send"
        => /\ StatusSendShape
           /\ stpc = "run"
                => \A fd \in Fds :
                     Cardinality(DeliveredTo(fd)) =
                         Cardinality(RegistrationsOf(fd))

C22_Witness ==
    /\ stop = "send"
    /\ stpc = "run"
    /\ status_pipes = <<2, 1>>
    /\ stfmt = <<"\n", "a">>
    /\ Len(stwrites) = 2

-----------------------------------------------------------------------------
(* Package names (parsehelp.c). *)

c_isalnum(c) == c_isalpha(c) \/ c_isdigit(c)

alsoallowed == <<"-", "+", ".", "_">>

\* The while loop of pkg_name_is_illegal from index i: the character it
\* stops at, "NUL" at the end of the name.
RECURSIVE pkg_name_scan(_, _)
pkg_name_scan(p, i) ==
    LET c == At(p, i)
    IN  IF c = "NUL" THEN "NUL"
        ELSE IF ~c_isalnum(c) /\ strchr(alsoallowed, 1, c) = 0
        THEN c
        ELSE pkg_name_scan(p, i + 1)

\* Mutant: the first character is checked like the others.
pkg_name_is_illegal_anyfirst(p) ==
    IF At(p, 1) = "NUL"
    THEN [msg |-> "may not be empty string", c |-> "NUL"]
    ELSE IF pkg_name_scan(p, 1) = "NUL" THEN NoMessage
    ELSE [msg |-> "character '%c' not allowed", c |-> pkg_name_scan(p, 1)]

\* pkg_name_is_illegal(p): NoMessage for NULL, else the message and the
\* character printed by %c.
pkg_name_is_illegal(p) ==
    IF At(p, 1) = "NUL"
    THEN [msg |-> "may not be empty string", c |-> "NUL"]
    ELSE IF ~c_isalnum(At(p, 1))
    THEN [msg |-> "must start with an alphanumeric character", c |-> "NUL"]
    ELSE IF pkg_name_scan(p, 1) = "NUL" THEN NoMessage
    ELSE [msg |-> "character '%c' not allowed", c |-> pkg_name_scan(p, 1)]

\* "\\xE9" stands for a byte above 127.
NameAlphabet == {"a", "Z", "0", "-", "+", ".", "_", "!", "\\xE9"}
PkgNames == StrUpTo(NameAlphabet, MaxName)

InitName ==
    /\ pkgname \in PkgNames
    /\ nameres = NoMessage
    /\ namepc = "start"
    /\ EarlierIdle /\ StatusIdle /\ LogIdle /\ BufIdle

PkgNameIsIllegal ==
    /\ namepc = "start"
    /\ nameres' = pkg_name_is_illegal(pkgname)
    /\ namepc' = "done"
    /\ UNCHANGED pkgname
    /\ UNCHANGED otherThanName

SpecName == InitName /\ [][PkgNameIsIllegal]_vars

\* The rule of the claim, on the name itself.
AsciiAlnum(c) == c \in DigitChars \cup LowerChars \cup UpperChars
NameCharOk(c) == AsciiAlnum(c) \/ c \in {"-", "+", ".", "_"}
BadNameChars(n) == {i \in 1..Len(n) : ~NameCharOk(n[i])}

\* C23: pkg_name_is_illegal returns NULL exactly for a non-empty name that
\* starts with an ASCII letter or digit and consists of ASCII letters, digits
\* and '-', '+', '.', '_'; the empty name gets 'may not be empty string', a
\* bad first character 'must start with an alphanumeric character', and any
\* other name the message that names its first disallowed character.
C23_LegalNames ==
    namepc = "done"
        => IF pkgname = <<>>
           THEN nameres.msg = "may not be empty string"
           ELSE IF ~AsciiAlnum(pkgname[1])
           THEN nameres.msg = "must start with an alphanumeric character"
           ELSE IF BadNameChars(pkgname) = {}
           THEN nameres = NoMessage
           ELSE /\ nameres.msg = "character '%c' not allowed"
                /\ nameres.c = pkgname[SetMin(BadNameChars(pkgname))]

C23_Witness ==
    /\ namepc = "done"
    /\ pkgname = <<"a", "_", "!">>
    /\ nameres = [msg |-> "character '%c' not allowed", c |-> "!"]

-----------------------------------------------------------------------------
(* Hard errors of the version parser. *)

\* One of the conditions that make a version text a hard error: it is empty,
\* has an embedded blank, has an epoch that is empty, not a number, negative
\* or too large, has nothing after the colon, has an empty revision or an
\* empty upstream.
HardErrorCondition(s) ==
    \/ Trimmed(s) = <<>>
    \/ HasEmbeddedBlank(s)
    \/ HasEpoch(s) /\ (~EpochTextOk(s) \/ BodyText(s) = <<>>)
    \/ HasRevisionSeparator(s) /\ RevisionOf(s) = <<>>
    \/ UpstreamOf(s) = <<>>

\* C24: a text with a hard-error condition is a hard error, never a warning
\* and never a success, whatever else is wrong with it.
C24_HardErrorsStayHard ==
    (vpc = "parsed" /\ HardErrorCondition(string))
        => rc = -1 /\ err.type = "DPKG_MSG_ERROR"

\* The epoch text starts with what strtol skips or takes as a sign.
EpochHasStrtolPrefix(s) ==
    /\ Trimmed(s) # <<>>
    /\ HasEpoch(s)
    /\ EpochText(s) # <<>>
    /\ (isspace(EpochText(s)[1]) \/ EpochText(s)[1] \in {"+", "-"})

\* The same for every text whose epoch does not start that way.
HardErrorsStayHardWithoutStrtolPrefix ==
    (vpc = "parsed" /\ HardErrorCondition(string) /\
     ~EpochHasStrtolPrefix(string))
        => rc = -1 /\ err.type = "DPKG_MSG_ERROR"

-----------------------------------------------------------------------------
(* The size of the argument array. *)

\* C25: after command_init and any sequence of command_add_arg,
\* command_add_argl, command_add_argv and command_add_args, with lists of
\* any length, argc is less than argv_size: the array has room for the
\* arguments and the NULL behind them.
C25_ArgcBelowArgvSize ==
    cmdpc # "idle" => cmd.argc < cmd.argv_size

C25_Witness ==
    /\ cmdpc = "built"
    /\ cmd.argc = 11
    /\ cmd.argv_size = (10 + 2 + 1) * 2
    /\ Len(added) = 11

-----------------------------------------------------------------------------
(* The log file (log.c).  The state of log_message is the global log_file   *)
(* and the static logfd; what it does to the outside is kept as history.    *)

\* What strftime writes for the time of the call.
TimeStr == <<"T">>

\* Mutant: log_file is left as it is when the file cannot be opened.
log_message_keepfile(file, fd, text, fopen_ok) ==
    IF file = NullStr
    THEN [log_file |-> file, logfd |-> fd, opens |-> <<>>, notices |-> <<>>,
          lines |-> <<>>]
    ELSE IF ~fd /\ ~fopen_ok
    THEN [log_file |-> file, logfd |-> FALSE, opens |-> <<FALSE>>,
          notices |-> <<"could not open log">>, lines |-> <<>>]
    ELSE [log_file |-> file, logfd |-> TRUE,
          opens |-> IF fd THEN <<>> ELSE <<TRUE>>,
          notices |-> <<>>,
          lines |-> <<TimeStr \o <<" ">> \o text \o <<"\n">>>>]

\* log_message(fmt, ...) with the formatted text and the answer of fopen:
\* the new log_file and logfd, and the fopen calls, notices and lines the
\* call makes.
log_message(file, fd, text, fopen_ok) ==
    IF file = NullStr
    THEN [log_file |-> file, logfd |-> fd, opens |-> <<>>, notices |-> <<>>,
          lines |-> <<>>]
    ELSE IF ~fd /\ ~fopen_ok
    THEN [log_file |-> NullStr, logfd |-> FALSE, opens |-> <<FALSE>>,
          notices |-> <<"could not open log">>, lines |-> <<>>]
    ELSE [log_file |-> file, logfd |-> TRUE,
          opens |-> IF fd THEN <<>> ELSE <<TRUE>>,
          notices |-> <<>>,
          lines |-> <<TimeStr \o <<" ">> \o text \o <<"\n">>>>]

LogFiles == {NullStr, <<"l">>}
LogTexts == StrUpTo({"a", "b"}, MaxText)

InitLog ==
    /\ log_file \in LogFiles
    /\ logfd = FALSE
    /\ logopens = <<>>
    /\ lognotices = <<>>
    /\ loglines = <<>>
    /\ EarlierIdle /\ NameIdle /\ StatusIdle /\ BufIdle

LogMessage ==
    /\ Len(loglines) < MaxLog
    /\ Len(logopens) < MaxLog
    /\ \E text \in LogTexts, fopen_ok \in BOOLEAN :
         LET r == log_message(log_file, logfd, text, fopen_ok)
         IN  /\ log_file' = r.log_file
             /\ logfd' = r.logfd
             /\ logopens' = logopens \o r.opens
             /\ lognotices' = lognotices \o r.notices
             /\ loglines' = loglines \o r.lines
    /\ UNCHANGED otherThanLog

SpecLog == InitLog /\ [][LogMessage]_vars

\* C26: while log_file is NULL a call opens and writes nothing; the file is
\* opened at most once, by the first call that finds log_file set; when that
\* fopen fails log_file becomes NULL and the notice is emitted, so there is
\* at most one notice and no second fopen.
C26_LogOpenedAtMostOnce ==
    /\ [](/\ Len(logopens) <= 1
          /\ Len(lognotices) <= 1
          /\ logfd <=> logopens = <<TRUE>>
          /\ loglines # <<>> => logfd
          /\ lognotices # <<>> <=> logopens = <<FALSE>>
          /\ lognotices # <<>> => log_file = NullStr)
    /\ [][log_file = NullStr => UNCHANGED logVars]_vars

C26_Witness ==
    /\ logopens = <<FALSE>>
    /\ lognotices = <<"could not open log">>
    /\ log_file = NullStr
    /\ loglines = <<>>

-----------------------------------------------------------------------------
(* runcmd and fixedCmd on long arguments: the bytes they write into         *)
(* cmdstring and rawCommand.                                                *)

\* An argument, or a directory, of n characters.
Fill(n) == [i \in 1..n |-> "x"]

\* Lengths around the size of cmdstring and the range of uint8_t.
ArgLengths ==
    {0, 1, CMDSTRING_SIZE \div 2 - 1, CMDSTRING_SIZE - 4, CMDSTRING_SIZE - 2,
     CMDSTRING_SIZE - 1, UINT8_RANGE - 1}

\* A directory of PATH with a long name.
LONGDIR == <<"/">> \o Fill(59)

LongFsAnswers ==
    [exists : BOOLEAN, script : BOOLEAN, garbage : {<<>>},
     dir : {PATHDIR, LONGDIR}, interpreter : {INTERPRETER}]

InitBuf ==
    /\ bcmd = command_init(<<"x">>, NullStr)
    /\ bused = 0
    /\ bfx = NoSizes
    /\ bpc = "built"
    /\ EarlierIdle /\ NameIdle /\ StatusIdle /\ LogIdle

BufAddArg ==
    /\ bpc = "built"
    /\ bcmd.argc < MaxLongArgs
    /\ \E n \in ArgLengths : bcmd' = command_add_arg(bcmd, Fill(n))
    /\ UNCHANGED <<bused, bfx, bpc>>
    /\ UNCHANGED otherThanBuf

\* runcmd(cmd).  A write outside cmdstring or outside rawCommand is
\* undefined: the process is ended there, or it goes on as if the memory
\* behind the buffer were free to use.
BufRuncmd ==
    /\ bpc = "built"
    /\ \E fs \in LongFsAnswers, goes_on \in BOOLEAN :
         LET r == runcmd(bcmd, fs, NullStr)
             outside == r.used > CMDSTRING_SIZE \/
                        r.sizes.written > r.sizes.allocated
         IN  /\ bused' = r.used
             /\ IF r.used > CMDSTRING_SIZE /\ ~goes_on
                THEN bfx' = NoSizes /\ bpc' = "crash"
                ELSE /\ bfx' = r.sizes
                     /\ bpc' = IF r.crash \/ (outside /\ ~goes_on)
                               THEN "crash" ELSE "runcmd"
    /\ UNCHANGED bcmd
    /\ UNCHANGED otherThanBuf

NextBuf == BufAddArg \/ BufRuncmd

SpecBuf == InitBuf /\ [][NextBuf]_vars

\* C27: runcmd never writes outside cmdstring, whatever argc and the lengths
\* of the arguments are.
C27_CmdstringNotOverrun ==
    bused <= CMDSTRING_SIZE

\* C28: the buffer arithmetic of fixedCmd is sound: size and commandSize
\* hold the lengths they are computed from, and every byte written to
\* rawCommand, the terminator at commandSize + 1 included, is inside the
\* commandSize + 1 bytes allocated.
C28_FixedCmdArithmeticSound ==
    bfx # NoSizes
        => /\ bfx.size = bfx.cmdlen + 1
           /\ bfx.commandSize = bfx.rawlen
           /\ bfx.written <= bfx.allocated

\* The same without the cases of C27, that is for the calls of fixedCmd that
\* a runcmd which stayed inside cmdstring makes.
FixedCmdSoundInsideCmdstring ==
    (bfx # NoSizes /\ bused <= CMDSTRING_SIZE)
        => /\ bfx.size = bfx.cmdlen + 1
           /\ bfx.commandSize = bfx.rawlen
           /\ bfx.written <= bfx.allocated

\* commandSize wrapped although runcmd stayed inside cmdstring.
CommandSizeNeverWraps ==
    (bfx # NoSizes /\ bused <= CMDSTRING_SIZE)
        => bfx.commandSize = bfx.rawlen

====
